---- MODULE Spec2Model ----
(***************************************************************************)
(* Persona classifier: the streaming pipeline (streaming_enricher.main and *)
(* call_with_retries over llm_client.ask_chat_session), the batch          *)
(* pipeline's post-processing (batch_enricher.main) and the shared         *)
(* classification helpers of parsing.py.                                   *)
(*                                                                         *)
(* Text is modelled as a sequence of one-character strings, so that        *)
(* stripping, prefix tests and difflib's matching are computed, not        *)
(* assumed.  A table cell is such a text, or NaN (pandas' missing value),  *)
(* or None.  Numbers are Python's: integers of any size and binary        *)
(* floating-point numbers with their rounding.                             *)
(***************************************************************************)
EXTENDS Integers, Sequences, FiniteSets, TLC

----------------------------------------------------------------------------
(* config.py *)

MAX_RETRIES == 5
INITIAL_BACKOFF == 2
MAX_BACKOFF == 30
MIN_CHUNK == 10
MAX_CHUNK == 250
MAX_PASSES == 3

VALID_PERSONAS ==
  { <<"E","x","e","c","u","t","i","v","e"," ","S","p","o","n","s","o","r">>,
    <<"E","c","o","n","o","m","i","c"," ","B","u","y","e","r">>,
    <<"D","a","t","a"," ","P","r","o","d","u","c","t"," ","M","a","n","a","g","e","r","/","O","w","n","e","r">>,
    <<"D","a","t","a"," ","U","s","e","r">>,
    <<"A","p","p","l","i","c","a","t","i","o","n"," ","D","e","v","e","l","o","p","e","r">>,
    <<"R","e","a","l","-","t","i","m","e"," ","S","p","e","c","i","a","l","i","s","t">>,
    <<"O","p","e","r","a","t","o","r","/","S","y","s","t","e","m","s"," ","A","d","m","i","n","i","s","t","r","a","t","o","r">>,
    <<"T","e","c","h","n","i","c","a","l"," ","D","e","c","i","s","i","o","n"," ","M","a","k","e","r">>,
    <<"N","o","t"," ","a"," ","t","a","r","g","e","t">> }

----------------------------------------------------------------------------
(* Python characters: the code points of str and their Unicode properties *)

\* A text is the sequence of its characters.  A character from U+0001 to
\* U+00FF is the string of itself, but for U+0060; every other character is
\* the string of its escape in repr(): \x00, \x60, \uXXXX up to U+FFFF
\* and \UXXXXXXXX above.
HexDigits == <<"0","1","2","3","4","5","6","7","8","9","a","b","c","d","e","f">>

\* The characters U+0000 to U+00FF; Latin1[n + 1] is chr(n).
Latin1 ==
  <<
    "\\x00","","","","","","","","","\t","\n","","\f","\r","","",
    "","","","","","","","","","","","","","","","",
    " ","!","\"","#","$","%","&","'","(",")","*","+",",","-",".","/",
    "0","1","2","3","4","5","6","7","8","9",":",";","<","=",">","?",
    "@","A","B","C","D","E","F","G","H","I","J","K","L","M","N","O",
    "P","Q","R","S","T","U","V","W","X","Y","Z","[","\\","]","^","_",
    "\\x60","a","b","c","d","e","f","g","h","i","j","k","l","m","n","o",
    "p","q","r","s","t","u","v","w","x","y","z","{","|","}","~","",
    "","","","","","","","","","","","","","","","",
    "","","","","","","","","","","","","","","","",
    " ","¡","¢","£","¤","¥","¦","§","¨","©","ª","«","¬","­","®","¯",
    "°","±","²","³","´","µ","¶","·","¸","¹","º","»","¼","½","¾","¿",
    "À","Á","Â","Ã","Ä","Å","Æ","Ç","È","É","Ê","Ë","Ì","Í","Î","Ï",
    "Ð","Ñ","Ò","Ó","Ô","Õ","Ö","×","Ø","Ù","Ú","Û","Ü","Ý","Þ","ß",
    "à","á","â","ã","ä","å","æ","ç","è","é","ê","ë","ì","í","î","ï",
    "ð","ñ","ò","ó","ô","õ","ö","÷","ø","ù","ú","û","ü","ý","þ","ÿ" >>

\* ord(c) for a character of Latin1
Latin1Code == [c \in { Latin1[n] : n \in 1..256 } |-> (CHOOSE n \in 1..256 : Latin1[n] = c) - 1]

HexOf(n) == HexDigits[(n % 16) + 1]

\* chr(n)
Chr(n) ==
  IF n < 256 THEN Latin1[n + 1]
  ELSE IF n < 65536
    THEN "\\u" \o HexOf(n \div 4096) \o HexOf(n \div 256) \o HexOf(n \div 16) \o HexOf(n)
  ELSE "\\U00" \o HexOf(n \div 1048576) \o HexOf(n \div 65536) \o HexOf(n \div 4096)
         \o HexOf(n \div 256) \o HexOf(n \div 16) \o HexOf(n)

\* The characters of a string of this module.
CharsOf(str) == [k \in 1..Len(str) |-> SubSeq(str, k, k)]

\* The number the hexadecimal digits h write.
HexDigitValue(c) == (CHOOSE d \in 1..16 : HexDigits[d] = c) - 1

RECURSIVE HexValue(_)
HexValue(h) ==
  IF h = <<>> THEN 0 ELSE 16 * HexValue(SubSeq(h, 1, Len(h) - 1)) + HexDigitValue(h[Len(h)])

\* ord(c)
Ord(c) ==
  IF c \in DOMAIN Latin1Code THEN Latin1Code[c]
  ELSE HexValue(CharsOf(SubSeq(c, 3, Len(c))))

\* c is one of the characters U+0000 to U+007F.
IsAscii(c) == c \in DOMAIN Latin1Code /\ Latin1Code[c] < 128

\* n lies in one of the ranges <<first, last>> of a table.
InRanges(n, table) == \E k \in 1..Len(table) : table[k][1] <= n /\ n <= table[k][2]

\* The characters for which str.isspace() holds, which str.strip() removes:
\* U+0009 to U+000D, U+001C to U+0020, U+0085, U+00A0, U+1680, U+2000 to
\* U+200A, U+2028, U+2029, U+202F, U+205F and U+3000.
Whitespace ==
  {"\t", "\n", "", "\f", "\r", "", "", "", "", " ", "", " ", "\\u1680", "\\u2000",
   "\\u2001", "\\u2002", "\\u2003", "\\u2004", "\\u2005", "\\u2006", "\\u2007", "\\u2008",
   "\\u2009", "\\u200a", "\\u2028", "\\u2029", "\\u202f", "\\u205f", "\\u3000"}

\* The line boundaries of str.splitlines(): \n, \r (and \r\n), \v, \f,
\* U+001C to U+001E, U+0085, U+2028 and U+2029.
LineBreaks ==
  {"\n", "", "\f", "\r", "", "", "", "", "\\u2028", "\\u2029"}

\* The ranges of the code points for which str.isprintable() does not hold
\* (Unicode 14.0.0), which repr() escapes.
NonPrintable ==
  <<<<0,31>>, <<127,160>>, <<173,173>>, <<888,889>>, <<896,899>>, <<907,907>>, <<909,909>>,
    <<930,930>>, <<1328,1328>>, <<1367,1368>>, <<1419,1420>>, <<1424,1424>>, <<1480,1487>>,
    <<1515,1518>>, <<1525,1541>>, <<1564,1564>>, <<1757,1757>>, <<1806,1807>>, <<1867,1868>>,
    <<1970,1983>>, <<2043,2044>>, <<2094,2095>>, <<2111,2111>>, <<2140,2141>>, <<2143,2143>>,
    <<2155,2159>>, <<2191,2199>>, <<2274,2274>>, <<2436,2436>>, <<2445,2446>>, <<2449,2450>>,
    <<2473,2473>>, <<2481,2481>>, <<2483,2485>>, <<2490,2491>>, <<2501,2502>>, <<2505,2506>>,
    <<2511,2518>>, <<2520,2523>>, <<2526,2526>>, <<2532,2533>>, <<2559,2560>>, <<2564,2564>>,
    <<2571,2574>>, <<2577,2578>>, <<2601,2601>>, <<2609,2609>>, <<2612,2612>>, <<2615,2615>>,
    <<2618,2619>>, <<2621,2621>>, <<2627,2630>>, <<2633,2634>>, <<2638,2640>>, <<2642,2648>>,
    <<2653,2653>>, <<2655,2661>>, <<2679,2688>>, <<2692,2692>>, <<2702,2702>>, <<2706,2706>>,
    <<2729,2729>>, <<2737,2737>>, <<2740,2740>>, <<2746,2747>>, <<2758,2758>>, <<2762,2762>>,
    <<2766,2767>>, <<2769,2783>>, <<2788,2789>>, <<2802,2808>>, <<2816,2816>>, <<2820,2820>>,
    <<2829,2830>>, <<2833,2834>>, <<2857,2857>>, <<2865,2865>>, <<2868,2868>>, <<2874,2875>>,
    <<2885,2886>>, <<2889,2890>>, <<2894,2900>>, <<2904,2907>>, <<2910,2910>>, <<2916,2917>>,
    <<2936,2945>>, <<2948,2948>>, <<2955,2957>>, <<2961,2961>>, <<2966,2968>>, <<2971,2971>>,
    <<2973,2973>>, <<2976,2978>>, <<2981,2983>>, <<2987,2989>>, <<3002,3005>>, <<3011,3013>>,
    <<3017,3017>>, <<3022,3023>>, <<3025,3030>>, <<3032,3045>>, <<3067,3071>>, <<3085,3085>>,
    <<3089,3089>>, <<3113,3113>>, <<3130,3131>>, <<3141,3141>>, <<3145,3145>>, <<3150,3156>>,
    <<3159,3159>>, <<3163,3164>>, <<3166,3167>>, <<3172,3173>>, <<3184,3190>>, <<3213,3213>>,
    <<3217,3217>>, <<3241,3241>>, <<3252,3252>>, <<3258,3259>>, <<3269,3269>>, <<3273,3273>>,
    <<3278,3284>>, <<3287,3292>>, <<3295,3295>>, <<3300,3301>>, <<3312,3312>>, <<3315,3327>>,
    <<3341,3341>>, <<3345,3345>>, <<3397,3397>>, <<3401,3401>>, <<3408,3411>>, <<3428,3429>>,
    <<3456,3456>>, <<3460,3460>>, <<3479,3481>>, <<3506,3506>>, <<3516,3516>>, <<3518,3519>>,
    <<3527,3529>>, <<3531,3534>>, <<3541,3541>>, <<3543,3543>>, <<3552,3557>>, <<3568,3569>>,
    <<3573,3584>>, <<3643,3646>>, <<3676,3712>>, <<3715,3715>>, <<3717,3717>>, <<3723,3723>>,
    <<3748,3748>>, <<3750,3750>>, <<3774,3775>>, <<3781,3781>>, <<3783,3783>>, <<3790,3791>>,
    <<3802,3803>>, <<3808,3839>>, <<3912,3912>>, <<3949,3952>>, <<3992,3992>>, <<4029,4029>>,
    <<4045,4045>>, <<4059,4095>>, <<4294,4294>>, <<4296,4300>>, <<4302,4303>>, <<4681,4681>>,
    <<4686,4687>>, <<4695,4695>>, <<4697,4697>>, <<4702,4703>>, <<4745,4745>>, <<4750,4751>>,
    <<4785,4785>>, <<4790,4791>>, <<4799,4799>>, <<4801,4801>>, <<4806,4807>>, <<4823,4823>>,
    <<4881,4881>>, <<4886,4887>>, <<4955,4956>>, <<4989,4991>>, <<5018,5023>>, <<5110,5111>>,
    <<5118,5119>>, <<5760,5760>>, <<5789,5791>>, <<5881,5887>>, <<5910,5918>>, <<5943,5951>>,
    <<5972,5983>>, <<5997,5997>>, <<6001,6001>>, <<6004,6015>>, <<6110,6111>>, <<6122,6127>>,
    <<6138,6143>>, <<6158,6158>>, <<6170,6175>>, <<6265,6271>>, <<6315,6319>>, <<6390,6399>>,
    <<6431,6431>>, <<6444,6447>>, <<6460,6463>>, <<6465,6467>>, <<6510,6511>>, <<6517,6527>>,
    <<6572,6575>>, <<6602,6607>>, <<6619,6621>>, <<6684,6685>>, <<6751,6751>>, <<6781,6782>>,
    <<6794,6799>>, <<6810,6815>>, <<6830,6831>>, <<6863,6911>>, <<6989,6991>>, <<7039,7039>>,
    <<7156,7163>>, <<7224,7226>>, <<7242,7244>>, <<7305,7311>>, <<7355,7356>>, <<7368,7375>>,
    <<7419,7423>>, <<7958,7959>>, <<7966,7967>>, <<8006,8007>>, <<8014,8015>>, <<8024,8024>>,
    <<8026,8026>>, <<8028,8028>>, <<8030,8030>>, <<8062,8063>>, <<8117,8117>>, <<8133,8133>>,
    <<8148,8149>>, <<8156,8156>>, <<8176,8177>>, <<8181,8181>>, <<8191,8207>>, <<8232,8239>>,
    <<8287,8303>>, <<8306,8307>>, <<8335,8335>>, <<8349,8351>>, <<8385,8399>>, <<8433,8447>>,
    <<8588,8591>>, <<9255,9279>>, <<9291,9311>>, <<11124,11125>>, <<11158,11158>>,
    <<11508,11512>>, <<11558,11558>>, <<11560,11564>>, <<11566,11567>>, <<11624,11630>>,
    <<11633,11646>>, <<11671,11679>>, <<11687,11687>>, <<11695,11695>>, <<11703,11703>>,
    <<11711,11711>>, <<11719,11719>>, <<11727,11727>>, <<11735,11735>>, <<11743,11743>>,
    <<11870,11903>>, <<11930,11930>>, <<12020,12031>>, <<12246,12271>>, <<12284,12288>>,
    <<12352,12352>>, <<12439,12440>>, <<12544,12548>>, <<12592,12592>>, <<12687,12687>>,
    <<12772,12783>>, <<12831,12831>>, <<42125,42127>>, <<42183,42191>>, <<42540,42559>>,
    <<42744,42751>>, <<42955,42959>>, <<42962,42962>>, <<42964,42964>>, <<42970,42993>>,
    <<43053,43055>>, <<43066,43071>>, <<43128,43135>>, <<43206,43213>>, <<43226,43231>>,
    <<43348,43358>>, <<43389,43391>>, <<43470,43470>>, <<43482,43485>>, <<43519,43519>>,
    <<43575,43583>>, <<43598,43599>>, <<43610,43611>>, <<43715,43738>>, <<43767,43776>>,
    <<43783,43784>>, <<43791,43792>>, <<43799,43807>>, <<43815,43815>>, <<43823,43823>>,
    <<43884,43887>>, <<44014,44015>>, <<44026,44031>>, <<55204,55215>>, <<55239,55242>>,
    <<55292,63743>>, <<64110,64111>>, <<64218,64255>>, <<64263,64274>>, <<64280,64284>>,
    <<64311,64311>>, <<64317,64317>>, <<64319,64319>>, <<64322,64322>>, <<64325,64325>>,
    <<64451,64466>>, <<64912,64913>>, <<64968,64974>>, <<64976,65007>>, <<65050,65055>>,
    <<65107,65107>>, <<65127,65127>>, <<65132,65135>>, <<65141,65141>>, <<65277,65280>>,
    <<65471,65473>>, <<65480,65481>>, <<65488,65489>>, <<65496,65497>>, <<65501,65503>>,
    <<65511,65511>>, <<65519,65531>>, <<65534,65535>>, <<65548,65548>>, <<65575,65575>>,
    <<65595,65595>>, <<65598,65598>>, <<65614,65615>>, <<65630,65663>>, <<65787,65791>>,
    <<65795,65798>>, <<65844,65846>>, <<65935,65935>>, <<65949,65951>>, <<65953,65999>>,
    <<66046,66175>>, <<66205,66207>>, <<66257,66271>>, <<66300,66303>>, <<66340,66348>>,
    <<66379,66383>>, <<66427,66431>>, <<66462,66462>>, <<66500,66503>>, <<66518,66559>>,
    <<66718,66719>>, <<66730,66735>>, <<66772,66775>>, <<66812,66815>>, <<66856,66863>>,
    <<66916,66926>>, <<66939,66939>>, <<66955,66955>>, <<66963,66963>>, <<66966,66966>>,
    <<66978,66978>>, <<66994,66994>>, <<67002,67002>>, <<67005,67071>>, <<67383,67391>>,
    <<67414,67423>>, <<67432,67455>>, <<67462,67462>>, <<67505,67505>>, <<67515,67583>>,
    <<67590,67591>>, <<67593,67593>>, <<67638,67638>>, <<67641,67643>>, <<67645,67646>>,
    <<67670,67670>>, <<67743,67750>>, <<67760,67807>>, <<67827,67827>>, <<67830,67834>>,
    <<67868,67870>>, <<67898,67902>>, <<67904,67967>>, <<68024,68027>>, <<68048,68049>>,
    <<68100,68100>>, <<68103,68107>>, <<68116,68116>>, <<68120,68120>>, <<68150,68151>>,
    <<68155,68158>>, <<68169,68175>>, <<68185,68191>>, <<68256,68287>>, <<68327,68330>>,
    <<68343,68351>>, <<68406,68408>>, <<68438,68439>>, <<68467,68471>>, <<68498,68504>>,
    <<68509,68520>>, <<68528,68607>>, <<68681,68735>>, <<68787,68799>>, <<68851,68857>>,
    <<68904,68911>>, <<68922,69215>>, <<69247,69247>>, <<69290,69290>>, <<69294,69295>>,
    <<69298,69375>>, <<69416,69423>>, <<69466,69487>>, <<69514,69551>>, <<69580,69599>>,
    <<69623,69631>>, <<69710,69713>>, <<69750,69758>>, <<69821,69821>>, <<69827,69839>>,
    <<69865,69871>>, <<69882,69887>>, <<69941,69941>>, <<69960,69967>>, <<70007,70015>>,
    <<70112,70112>>, <<70133,70143>>, <<70162,70162>>, <<70207,70271>>, <<70279,70279>>,
    <<70281,70281>>, <<70286,70286>>, <<70302,70302>>, <<70314,70319>>, <<70379,70383>>,
    <<70394,70399>>, <<70404,70404>>, <<70413,70414>>, <<70417,70418>>, <<70441,70441>>,
    <<70449,70449>>, <<70452,70452>>, <<70458,70458>>, <<70469,70470>>, <<70473,70474>>,
    <<70478,70479>>, <<70481,70486>>, <<70488,70492>>, <<70500,70501>>, <<70509,70511>>,
    <<70517,70655>>, <<70748,70748>>, <<70754,70783>>, <<70856,70863>>, <<70874,71039>>,
    <<71094,71095>>, <<71134,71167>>, <<71237,71247>>, <<71258,71263>>, <<71277,71295>>,
    <<71354,71359>>, <<71370,71423>>, <<71451,71452>>, <<71468,71471>>, <<71495,71679>>,
    <<71740,71839>>, <<71923,71934>>, <<71943,71944>>, <<71946,71947>>, <<71956,71956>>,
    <<71959,71959>>, <<71990,71990>>, <<71993,71994>>, <<72007,72015>>, <<72026,72095>>,
    <<72104,72105>>, <<72152,72153>>, <<72165,72191>>, <<72264,72271>>, <<72355,72367>>,
    <<72441,72703>>, <<72713,72713>>, <<72759,72759>>, <<72774,72783>>, <<72813,72815>>,
    <<72848,72849>>, <<72872,72872>>, <<72887,72959>>, <<72967,72967>>, <<72970,72970>>,
    <<73015,73017>>, <<73019,73019>>, <<73022,73022>>, <<73032,73039>>, <<73050,73055>>,
    <<73062,73062>>, <<73065,73065>>, <<73103,73103>>, <<73106,73106>>, <<73113,73119>>,
    <<73130,73439>>, <<73465,73647>>, <<73649,73663>>, <<73714,73726>>, <<74650,74751>>,
    <<74863,74863>>, <<74869,74879>>, <<75076,77711>>, <<77811,77823>>, <<78895,82943>>,
    <<83527,92159>>, <<92729,92735>>, <<92767,92767>>, <<92778,92781>>, <<92863,92863>>,
    <<92874,92879>>, <<92910,92911>>, <<92918,92927>>, <<92998,93007>>, <<93018,93018>>,
    <<93026,93026>>, <<93048,93052>>, <<93072,93759>>, <<93851,93951>>, <<94027,94030>>,
    <<94088,94094>>, <<94112,94175>>, <<94181,94191>>, <<94194,94207>>, <<100344,100351>>,
    <<101590,101631>>, <<101641,110575>>, <<110580,110580>>, <<110588,110588>>,
    <<110591,110591>>, <<110883,110927>>, <<110931,110947>>, <<110952,110959>>,
    <<111356,113663>>, <<113771,113775>>, <<113789,113791>>, <<113801,113807>>,
    <<113818,113819>>, <<113824,118527>>, <<118574,118575>>, <<118599,118607>>,
    <<118724,118783>>, <<119030,119039>>, <<119079,119080>>, <<119155,119162>>,
    <<119275,119295>>, <<119366,119519>>, <<119540,119551>>, <<119639,119647>>,
    <<119673,119807>>, <<119893,119893>>, <<119965,119965>>, <<119968,119969>>,
    <<119971,119972>>, <<119975,119976>>, <<119981,119981>>, <<119994,119994>>,
    <<119996,119996>>, <<120004,120004>>, <<120070,120070>>, <<120075,120076>>,
    <<120085,120085>>, <<120093,120093>>, <<120122,120122>>, <<120127,120127>>,
    <<120133,120133>>, <<120135,120137>>, <<120145,120145>>, <<120486,120487>>,
    <<120780,120781>>, <<121484,121498>>, <<121504,121504>>, <<121520,122623>>,
    <<122655,122879>>, <<122887,122887>>, <<122905,122906>>, <<122914,122914>>,
    <<122917,122917>>, <<122923,123135>>, <<123181,123183>>, <<123198,123199>>,
    <<123210,123213>>, <<123216,123535>>, <<123567,123583>>, <<123642,123646>>,
    <<123648,124895>>, <<124903,124903>>, <<124908,124908>>, <<124911,124911>>,
    <<124927,124927>>, <<125125,125126>>, <<125143,125183>>, <<125260,125263>>,
    <<125274,125277>>, <<125280,126064>>, <<126133,126208>>, <<126270,126463>>,
    <<126468,126468>>, <<126496,126496>>, <<126499,126499>>, <<126501,126502>>,
    <<126504,126504>>, <<126515,126515>>, <<126520,126520>>, <<126522,126522>>,
    <<126524,126529>>, <<126531,126534>>, <<126536,126536>>, <<126538,126538>>,
    <<126540,126540>>, <<126544,126544>>, <<126547,126547>>, <<126549,126550>>,
    <<126552,126552>>, <<126554,126554>>, <<126556,126556>>, <<126558,126558>>,
    <<126560,126560>>, <<126563,126563>>, <<126565,126566>>, <<126571,126571>>,
    <<126579,126579>>, <<126584,126584>>, <<126589,126589>>, <<126591,126591>>,
    <<126602,126602>>, <<126620,126624>>, <<126628,126628>>, <<126634,126634>>,
    <<126652,126703>>, <<126706,126975>>, <<127020,127023>>, <<127124,127135>>,
    <<127151,127152>>, <<127168,127168>>, <<127184,127184>>, <<127222,127231>>,
    <<127406,127461>>, <<127491,127503>>, <<127548,127551>>, <<127561,127567>>,
    <<127570,127583>>, <<127590,127743>>, <<128728,128732>>, <<128749,128751>>,
    <<128765,128767>>, <<128884,128895>>, <<128985,128991>>, <<129004,129007>>,
    <<129009,129023>>, <<129036,129039>>, <<129096,129103>>, <<129114,129119>>,
    <<129160,129167>>, <<129198,129199>>, <<129202,129279>>, <<129620,129631>>,
    <<129646,129647>>, <<129653,129655>>, <<129661,129663>>, <<129671,129679>>,
    <<129709,129711>>, <<129723,129727>>, <<129734,129743>>, <<129754,129759>>,
    <<129768,129775>>, <<129783,129791>>, <<129939,129939>>, <<129995,130031>>,
    <<130042,131071>>, <<173792,173823>>, <<177977,177983>>, <<178206,178207>>,
    <<183970,183983>>, <<191457,194559>>, <<195102,196607>>, <<201547,917759>>,
    <<918000,1114111>> >>

IsPrintable(c) == ~InRanges(Ord(c), NonPrintable)

\* The code points of the digit 0 of every script; the nine code points
\* after each are its digits 1 to 9.
DecimalZeros ==
  {48, 1632, 1776, 1984, 2406, 2534, 2662, 2790, 2918, 3046, 3174, 3302, 3430, 3558, 3664, 3792,
   3872, 4160, 4240, 6112, 6160, 6470, 6608, 6784, 6800, 6992, 7088, 7232, 7248, 42528, 43216,
   43264, 43472, 43504, 43600, 44016, 65296, 66720, 68912, 69734, 69872, 69942, 70096, 70384,
   70736, 70864, 71248, 71360, 71472, 71904, 72016, 72784, 73040, 73120, 92768, 92864, 93008,
   120782, 120792, 120802, 120812, 120822, 123200, 123632, 125264, 130032}

\* The value of a decimal digit of any script, -1 for any other character.
DecimalValue(n) ==
  IF \E z \in DecimalZeros : z <= n /\ n <= z + 9
  THEN n - (CHOOSE z \in DecimalZeros : z <= n /\ n <= z + 9)
  ELSE -1

\* str.lower() of one character: the code points from first to last in
\* steps of step become the code point plus delta, as <<first, last, delta,
\* step>>; every other character but U+0130 stays.
LowerRuns ==
  <<<<65,90,32,1>>, <<192,214,32,1>>, <<216,222,32,1>>, <<256,302,1,2>>, <<306,310,1,2>>,
    <<313,327,1,2>>, <<330,374,1,2>>, <<376,376,-121,1>>, <<377,381,1,2>>, <<385,385,210,1>>,
    <<386,388,1,2>>, <<390,390,206,1>>, <<391,391,1,1>>, <<393,394,205,1>>, <<395,395,1,1>>,
    <<398,398,79,1>>, <<399,399,202,1>>, <<400,400,203,1>>, <<401,401,1,1>>, <<403,403,205,1>>,
    <<404,404,207,1>>, <<406,406,211,1>>, <<407,407,209,1>>, <<408,408,1,1>>, <<412,412,211,1>>,
    <<413,413,213,1>>, <<415,415,214,1>>, <<416,420,1,2>>, <<422,422,218,1>>, <<423,423,1,1>>,
    <<425,425,218,1>>, <<428,428,1,1>>, <<430,430,218,1>>, <<431,431,1,1>>, <<433,434,217,1>>,
    <<435,437,1,2>>, <<439,439,219,1>>, <<440,440,1,1>>, <<444,444,1,1>>, <<452,452,2,1>>,
    <<453,453,1,1>>, <<455,455,2,1>>, <<456,456,1,1>>, <<458,458,2,1>>, <<459,475,1,2>>,
    <<478,494,1,2>>, <<497,497,2,1>>, <<498,500,1,2>>, <<502,502,-97,1>>, <<503,503,-56,1>>,
    <<504,542,1,2>>, <<544,544,-130,1>>, <<546,562,1,2>>, <<570,570,10795,1>>, <<571,571,1,1>>,
    <<573,573,-163,1>>, <<574,574,10792,1>>, <<577,577,1,1>>, <<579,579,-195,1>>,
    <<580,580,69,1>>, <<581,581,71,1>>, <<582,590,1,2>>, <<880,882,1,2>>, <<886,886,1,1>>,
    <<895,895,116,1>>, <<902,902,38,1>>, <<904,906,37,1>>, <<908,908,64,1>>, <<910,911,63,1>>,
    <<913,929,32,1>>, <<931,939,32,1>>, <<975,975,8,1>>, <<984,1006,1,2>>, <<1012,1012,-60,1>>,
    <<1015,1015,1,1>>, <<1017,1017,-7,1>>, <<1018,1018,1,1>>, <<1021,1023,-130,1>>,
    <<1024,1039,80,1>>, <<1040,1071,32,1>>, <<1120,1152,1,2>>, <<1162,1214,1,2>>,
    <<1216,1216,15,1>>, <<1217,1229,1,2>>, <<1232,1326,1,2>>, <<1329,1366,48,1>>,
    <<4256,4293,7264,1>>, <<4295,4295,7264,1>>, <<4301,4301,7264,1>>, <<5024,5103,38864,1>>,
    <<5104,5109,8,1>>, <<7312,7354,-3008,1>>, <<7357,7359,-3008,1>>, <<7680,7828,1,2>>,
    <<7838,7838,-7615,1>>, <<7840,7934,1,2>>, <<7944,7951,-8,1>>, <<7960,7965,-8,1>>,
    <<7976,7983,-8,1>>, <<7992,7999,-8,1>>, <<8008,8013,-8,1>>, <<8025,8031,-8,2>>,
    <<8040,8047,-8,1>>, <<8072,8079,-8,1>>, <<8088,8095,-8,1>>, <<8104,8111,-8,1>>,
    <<8120,8121,-8,1>>, <<8122,8123,-74,1>>, <<8124,8124,-9,1>>, <<8136,8139,-86,1>>,
    <<8140,8140,-9,1>>, <<8152,8153,-8,1>>, <<8154,8155,-100,1>>, <<8168,8169,-8,1>>,
    <<8170,8171,-112,1>>, <<8172,8172,-7,1>>, <<8184,8185,-128,1>>, <<8186,8187,-126,1>>,
    <<8188,8188,-9,1>>, <<8486,8486,-7517,1>>, <<8490,8490,-8383,1>>, <<8491,8491,-8262,1>>,
    <<8498,8498,28,1>>, <<8544,8559,16,1>>, <<8579,8579,1,1>>, <<9398,9423,26,1>>,
    <<11264,11311,48,1>>, <<11360,11360,1,1>>, <<11362,11362,-10743,1>>,
    <<11363,11363,-3814,1>>, <<11364,11364,-10727,1>>, <<11367,11371,1,2>>,
    <<11373,11373,-10780,1>>, <<11374,11374,-10749,1>>, <<11375,11375,-10783,1>>,
    <<11376,11376,-10782,1>>, <<11378,11378,1,1>>, <<11381,11381,1,1>>,
    <<11390,11391,-10815,1>>, <<11392,11490,1,2>>, <<11499,11501,1,2>>, <<11506,11506,1,1>>,
    <<42560,42604,1,2>>, <<42624,42650,1,2>>, <<42786,42798,1,2>>, <<42802,42862,1,2>>,
    <<42873,42875,1,2>>, <<42877,42877,-35332,1>>, <<42878,42886,1,2>>, <<42891,42891,1,1>>,
    <<42893,42893,-42280,1>>, <<42896,42898,1,2>>, <<42902,42920,1,2>>,
    <<42922,42922,-42308,1>>, <<42923,42923,-42319,1>>, <<42924,42924,-42315,1>>,
    <<42925,42925,-42305,1>>, <<42926,42926,-42308,1>>, <<42928,42928,-42258,1>>,
    <<42929,42929,-42282,1>>, <<42930,42930,-42261,1>>, <<42931,42931,928,1>>,
    <<42932,42946,1,2>>, <<42948,42948,-48,1>>, <<42949,42949,-42307,1>>,
    <<42950,42950,-35384,1>>, <<42951,42953,1,2>>, <<42960,42960,1,1>>, <<42966,42968,1,2>>,
    <<42997,42997,1,1>>, <<65313,65338,32,1>>, <<66560,66599,40,1>>, <<66736,66771,40,1>>,
    <<66928,66938,39,1>>, <<66940,66954,39,1>>, <<66956,66962,39,1>>, <<66964,66965,39,1>>,
    <<68736,68786,64,1>>, <<71840,71871,32,1>>, <<93760,93791,32,1>>, <<125184,125217,34,1>> >>

\* The ranges of the cased code points that are not case-ignorable, and of
\* the case-ignorable ones: they decide how U+03A3 is lowered.
CasedLetters ==
  <<<<65,90>>, <<97,122>>, <<170,170>>, <<181,181>>, <<186,186>>, <<192,214>>, <<216,246>>,
    <<248,442>>, <<444,447>>, <<452,659>>, <<661,687>>, <<880,883>>, <<886,887>>, <<891,893>>,
    <<895,895>>, <<902,902>>, <<904,906>>, <<908,908>>, <<910,929>>, <<931,1013>>,
    <<1015,1153>>, <<1162,1327>>, <<1329,1366>>, <<1376,1416>>, <<4256,4293>>, <<4295,4295>>,
    <<4301,4301>>, <<4304,4346>>, <<4349,4351>>, <<5024,5109>>, <<5112,5117>>, <<7296,7304>>,
    <<7312,7354>>, <<7357,7359>>, <<7424,7467>>, <<7531,7543>>, <<7545,7578>>, <<7680,7957>>,
    <<7960,7965>>, <<7968,8005>>, <<8008,8013>>, <<8016,8023>>, <<8025,8025>>, <<8027,8027>>,
    <<8029,8029>>, <<8031,8061>>, <<8064,8116>>, <<8118,8124>>, <<8126,8126>>, <<8130,8132>>,
    <<8134,8140>>, <<8144,8147>>, <<8150,8155>>, <<8160,8172>>, <<8178,8180>>, <<8182,8188>>,
    <<8450,8450>>, <<8455,8455>>, <<8458,8467>>, <<8469,8469>>, <<8473,8477>>, <<8484,8484>>,
    <<8486,8486>>, <<8488,8488>>, <<8490,8493>>, <<8495,8500>>, <<8505,8505>>, <<8508,8511>>,
    <<8517,8521>>, <<8526,8526>>, <<8544,8575>>, <<8579,8580>>, <<9398,9449>>, <<11264,11387>>,
    <<11390,11492>>, <<11499,11502>>, <<11506,11507>>, <<11520,11557>>, <<11559,11559>>,
    <<11565,11565>>, <<42560,42605>>, <<42624,42651>>, <<42786,42863>>, <<42865,42887>>,
    <<42891,42894>>, <<42896,42954>>, <<42960,42961>>, <<42963,42963>>, <<42965,42969>>,
    <<42997,42998>>, <<43002,43002>>, <<43824,43866>>, <<43872,43880>>, <<43888,43967>>,
    <<64256,64262>>, <<64275,64279>>, <<65313,65338>>, <<65345,65370>>, <<66560,66639>>,
    <<66736,66771>>, <<66776,66811>>, <<66928,66938>>, <<66940,66954>>, <<66956,66962>>,
    <<66964,66965>>, <<66967,66977>>, <<66979,66993>>, <<66995,67001>>, <<67003,67004>>,
    <<68736,68786>>, <<68800,68850>>, <<71840,71903>>, <<93760,93823>>, <<119808,119892>>,
    <<119894,119964>>, <<119966,119967>>, <<119970,119970>>, <<119973,119974>>,
    <<119977,119980>>, <<119982,119993>>, <<119995,119995>>, <<119997,120003>>,
    <<120005,120069>>, <<120071,120074>>, <<120077,120084>>, <<120086,120092>>,
    <<120094,120121>>, <<120123,120126>>, <<120128,120132>>, <<120134,120134>>,
    <<120138,120144>>, <<120146,120485>>, <<120488,120512>>, <<120514,120538>>,
    <<120540,120570>>, <<120572,120596>>, <<120598,120628>>, <<120630,120654>>,
    <<120656,120686>>, <<120688,120712>>, <<120714,120744>>, <<120746,120770>>,
    <<120772,120779>>, <<122624,122633>>, <<122635,122654>>, <<125184,125251>>,
    <<127280,127305>>, <<127312,127337>>, <<127344,127369>> >>

CaseIgnorable ==
  <<<<39,39>>, <<46,46>>, <<58,58>>, <<94,94>>, <<96,96>>, <<168,168>>, <<173,173>>,
    <<175,175>>, <<180,180>>, <<183,184>>, <<688,879>>, <<884,885>>, <<890,890>>, <<900,901>>,
    <<903,903>>, <<1155,1161>>, <<1369,1369>>, <<1375,1375>>, <<1425,1469>>, <<1471,1471>>,
    <<1473,1474>>, <<1476,1477>>, <<1479,1479>>, <<1524,1524>>, <<1536,1541>>, <<1552,1562>>,
    <<1564,1564>>, <<1600,1600>>, <<1611,1631>>, <<1648,1648>>, <<1750,1757>>, <<1759,1768>>,
    <<1770,1773>>, <<1807,1807>>, <<1809,1809>>, <<1840,1866>>, <<1958,1968>>, <<2027,2037>>,
    <<2042,2042>>, <<2045,2045>>, <<2070,2093>>, <<2137,2139>>, <<2184,2184>>, <<2192,2193>>,
    <<2200,2207>>, <<2249,2306>>, <<2362,2362>>, <<2364,2364>>, <<2369,2376>>, <<2381,2381>>,
    <<2385,2391>>, <<2402,2403>>, <<2417,2417>>, <<2433,2433>>, <<2492,2492>>, <<2497,2500>>,
    <<2509,2509>>, <<2530,2531>>, <<2558,2558>>, <<2561,2562>>, <<2620,2620>>, <<2625,2626>>,
    <<2631,2632>>, <<2635,2637>>, <<2641,2641>>, <<2672,2673>>, <<2677,2677>>, <<2689,2690>>,
    <<2748,2748>>, <<2753,2757>>, <<2759,2760>>, <<2765,2765>>, <<2786,2787>>, <<2810,2815>>,
    <<2817,2817>>, <<2876,2876>>, <<2879,2879>>, <<2881,2884>>, <<2893,2893>>, <<2901,2902>>,
    <<2914,2915>>, <<2946,2946>>, <<3008,3008>>, <<3021,3021>>, <<3072,3072>>, <<3076,3076>>,
    <<3132,3132>>, <<3134,3136>>, <<3142,3144>>, <<3146,3149>>, <<3157,3158>>, <<3170,3171>>,
    <<3201,3201>>, <<3260,3260>>, <<3263,3263>>, <<3270,3270>>, <<3276,3277>>, <<3298,3299>>,
    <<3328,3329>>, <<3387,3388>>, <<3393,3396>>, <<3405,3405>>, <<3426,3427>>, <<3457,3457>>,
    <<3530,3530>>, <<3538,3540>>, <<3542,3542>>, <<3633,3633>>, <<3636,3642>>, <<3654,3662>>,
    <<3761,3761>>, <<3764,3772>>, <<3782,3782>>, <<3784,3789>>, <<3864,3865>>, <<3893,3893>>,
    <<3895,3895>>, <<3897,3897>>, <<3953,3966>>, <<3968,3972>>, <<3974,3975>>, <<3981,3991>>,
    <<3993,4028>>, <<4038,4038>>, <<4141,4144>>, <<4146,4151>>, <<4153,4154>>, <<4157,4158>>,
    <<4184,4185>>, <<4190,4192>>, <<4209,4212>>, <<4226,4226>>, <<4229,4230>>, <<4237,4237>>,
    <<4253,4253>>, <<4348,4348>>, <<4957,4959>>, <<5906,5908>>, <<5938,5939>>, <<5970,5971>>,
    <<6002,6003>>, <<6068,6069>>, <<6071,6077>>, <<6086,6086>>, <<6089,6099>>, <<6103,6103>>,
    <<6109,6109>>, <<6155,6159>>, <<6211,6211>>, <<6277,6278>>, <<6313,6313>>, <<6432,6434>>,
    <<6439,6440>>, <<6450,6450>>, <<6457,6459>>, <<6679,6680>>, <<6683,6683>>, <<6742,6742>>,
    <<6744,6750>>, <<6752,6752>>, <<6754,6754>>, <<6757,6764>>, <<6771,6780>>, <<6783,6783>>,
    <<6823,6823>>, <<6832,6862>>, <<6912,6915>>, <<6964,6964>>, <<6966,6970>>, <<6972,6972>>,
    <<6978,6978>>, <<7019,7027>>, <<7040,7041>>, <<7074,7077>>, <<7080,7081>>, <<7083,7085>>,
    <<7142,7142>>, <<7144,7145>>, <<7149,7149>>, <<7151,7153>>, <<7212,7219>>, <<7222,7223>>,
    <<7288,7293>>, <<7376,7378>>, <<7380,7392>>, <<7394,7400>>, <<7405,7405>>, <<7412,7412>>,
    <<7416,7417>>, <<7468,7530>>, <<7544,7544>>, <<7579,7679>>, <<8125,8125>>, <<8127,8129>>,
    <<8141,8143>>, <<8157,8159>>, <<8173,8175>>, <<8189,8190>>, <<8203,8207>>, <<8216,8217>>,
    <<8228,8228>>, <<8231,8231>>, <<8234,8238>>, <<8288,8292>>, <<8294,8303>>, <<8305,8305>>,
    <<8319,8319>>, <<8336,8348>>, <<8400,8432>>, <<11388,11389>>, <<11503,11505>>,
    <<11631,11631>>, <<11647,11647>>, <<11744,11775>>, <<11823,11823>>, <<12293,12293>>,
    <<12330,12333>>, <<12337,12341>>, <<12347,12347>>, <<12441,12446>>, <<12540,12542>>,
    <<40981,40981>>, <<42232,42237>>, <<42508,42508>>, <<42607,42610>>, <<42612,42621>>,
    <<42623,42623>>, <<42652,42655>>, <<42736,42737>>, <<42752,42785>>, <<42864,42864>>,
    <<42888,42890>>, <<42994,42996>>, <<43000,43001>>, <<43010,43010>>, <<43014,43014>>,
    <<43019,43019>>, <<43045,43046>>, <<43052,43052>>, <<43204,43205>>, <<43232,43249>>,
    <<43263,43263>>, <<43302,43309>>, <<43335,43345>>, <<43392,43394>>, <<43443,43443>>,
    <<43446,43449>>, <<43452,43453>>, <<43471,43471>>, <<43493,43494>>, <<43561,43566>>,
    <<43569,43570>>, <<43573,43574>>, <<43587,43587>>, <<43596,43596>>, <<43632,43632>>,
    <<43644,43644>>, <<43696,43696>>, <<43698,43700>>, <<43703,43704>>, <<43710,43711>>,
    <<43713,43713>>, <<43741,43741>>, <<43756,43757>>, <<43763,43764>>, <<43766,43766>>,
    <<43867,43871>>, <<43881,43883>>, <<44005,44005>>, <<44008,44008>>, <<44013,44013>>,
    <<64286,64286>>, <<64434,64450>>, <<65024,65039>>, <<65043,65043>>, <<65056,65071>>,
    <<65106,65106>>, <<65109,65109>>, <<65279,65279>>, <<65287,65287>>, <<65294,65294>>,
    <<65306,65306>>, <<65342,65342>>, <<65344,65344>>, <<65392,65392>>, <<65438,65439>>,
    <<65507,65507>>, <<65529,65531>>, <<66045,66045>>, <<66272,66272>>, <<66422,66426>>,
    <<67456,67461>>, <<67463,67504>>, <<67506,67514>>, <<68097,68099>>, <<68101,68102>>,
    <<68108,68111>>, <<68152,68154>>, <<68159,68159>>, <<68325,68326>>, <<68900,68903>>,
    <<69291,69292>>, <<69446,69456>>, <<69506,69509>>, <<69633,69633>>, <<69688,69702>>,
    <<69744,69744>>, <<69747,69748>>, <<69759,69761>>, <<69811,69814>>, <<69817,69818>>,
    <<69821,69821>>, <<69826,69826>>, <<69837,69837>>, <<69888,69890>>, <<69927,69931>>,
    <<69933,69940>>, <<70003,70003>>, <<70016,70017>>, <<70070,70078>>, <<70089,70092>>,
    <<70095,70095>>, <<70191,70193>>, <<70196,70196>>, <<70198,70199>>, <<70206,70206>>,
    <<70367,70367>>, <<70371,70378>>, <<70400,70401>>, <<70459,70460>>, <<70464,70464>>,
    <<70502,70508>>, <<70512,70516>>, <<70712,70719>>, <<70722,70724>>, <<70726,70726>>,
    <<70750,70750>>, <<70835,70840>>, <<70842,70842>>, <<70847,70848>>, <<70850,70851>>,
    <<71090,71093>>, <<71100,71101>>, <<71103,71104>>, <<71132,71133>>, <<71219,71226>>,
    <<71229,71229>>, <<71231,71232>>, <<71339,71339>>, <<71341,71341>>, <<71344,71349>>,
    <<71351,71351>>, <<71453,71455>>, <<71458,71461>>, <<71463,71467>>, <<71727,71735>>,
    <<71737,71738>>, <<71995,71996>>, <<71998,71998>>, <<72003,72003>>, <<72148,72151>>,
    <<72154,72155>>, <<72160,72160>>, <<72193,72202>>, <<72243,72248>>, <<72251,72254>>,
    <<72263,72263>>, <<72273,72278>>, <<72281,72283>>, <<72330,72342>>, <<72344,72345>>,
    <<72752,72758>>, <<72760,72765>>, <<72767,72767>>, <<72850,72871>>, <<72874,72880>>,
    <<72882,72883>>, <<72885,72886>>, <<73009,73014>>, <<73018,73018>>, <<73020,73021>>,
    <<73023,73029>>, <<73031,73031>>, <<73104,73105>>, <<73109,73109>>, <<73111,73111>>,
    <<73459,73460>>, <<78896,78904>>, <<92912,92916>>, <<92976,92982>>, <<92992,92995>>,
    <<94031,94031>>, <<94095,94111>>, <<94176,94177>>, <<94179,94180>>, <<110576,110579>>,
    <<110581,110587>>, <<110589,110590>>, <<113821,113822>>, <<113824,113827>>,
    <<118528,118573>>, <<118576,118598>>, <<119143,119145>>, <<119155,119170>>,
    <<119173,119179>>, <<119210,119213>>, <<119362,119364>>, <<121344,121398>>,
    <<121403,121452>>, <<121461,121461>>, <<121476,121476>>, <<121499,121503>>,
    <<121505,121519>>, <<122880,122886>>, <<122888,122904>>, <<122907,122913>>,
    <<122915,122916>>, <<122918,122922>>, <<123184,123197>>, <<123566,123566>>,
    <<123628,123631>>, <<125136,125142>>, <<125252,125259>>, <<127995,127999>>,
    <<917505,917505>>, <<917536,917631>>, <<917760,917999>> >>
----------------------------------------------------------------------------
(* Python values and string operations used by parsing.py *)

\* pandas' missing value (float nan) and Python's None: cells that are no text.
NaN == <<"<NaN>">>
None == <<"<None>">>

\* The first index from k on whose character is outside, or inside, a set;
\* Len(s) + 1 when there is none.
FirstOutside(s, k, chars) ==
  IF \A j \in k..Len(s) : s[j] \in chars THEN Len(s) + 1
  ELSE CHOOSE j \in k..Len(s) : s[j] \notin chars /\ \A h \in k..(j - 1) : s[h] \in chars

FirstInside(s, k, chars) ==
  IF \A j \in k..Len(s) : s[j] \notin chars THEN Len(s) + 1
  ELSE CHOOSE j \in k..Len(s) : s[j] \in chars /\ \A h \in k..(j - 1) : s[h] \notin chars

\* The last index whose character is outside a set; 0 when there is none.
LastOutside(s, chars) ==
  IF \A j \in 1..Len(s) : s[j] \in chars THEN 0
  ELSE CHOOSE j \in 1..Len(s) : s[j] \notin chars /\ \A h \in (j + 1)..Len(s) : s[h] \in chars

\* s without the characters of a set at its ends.
StripOf(s, chars) == SubSeq(s, FirstOutside(s, 1, chars), LastOutside(s, chars))

\* str.strip(): drop leading and trailing whitespace.
Strip(s) == StripOf(s, Whitespace)

\* str(v): the text of NaN is "nan", of None is "None".
PyStr(v) ==
  IF v = NaN THEN <<"n","a","n">>
  ELSE IF v = None THEN <<"N","o","n","e">>
  ELSE v

\* `v or ""`: None and the empty text are falsy; NaN (a non-zero float) is truthy.
OrEmpty(v) == IF v = None \/ v = <<>> THEN <<>> ELSE v

\* str.startswith
StartsWith(s, prefix) ==
  Len(s) >= Len(prefix) /\ SubSeq(s, 1, Len(prefix)) = prefix

\* `sub in s`
Contains(s, sub) ==
  \E k \in 0..(Len(s) - Len(sub)) : SubSeq(s, k + 1, k + Len(sub)) = sub

\* parts[lo] \o ... \o parts[hi]
RECURSIVE Concat(_, _, _)
Concat(parts, lo, hi) ==
  IF lo > hi THEN <<>>
  ELSE IF lo = hi THEN parts[lo]
  ELSE Concat(parts, lo, (lo + hi) \div 2) \o Concat(parts, (lo + hi) \div 2 + 1, hi)

\* The lower case of a code point that has one of its own.
LowerRunOf(n) ==
  { k \in 1..Len(LowerRuns) :
      /\ LowerRuns[k][1] <= n /\ n <= LowerRuns[k][2]
      /\ (n - LowerRuns[k][1]) % LowerRuns[k][4] = 0 }

LowerCode(n, runs) == IF runs = {} THEN n ELSE n + LowerRuns[CHOOSE k \in runs : TRUE][3]

\* A capital sigma at index k ends a word: the nearest character before it
\* that is not case-ignorable is a cased letter, and the nearest after it,
\* if any, is not.
CasedBefore(s, k) ==
  \E j \in 1..(k - 1) :
    /\ InRanges(Ord(s[j]), CasedLetters)
    /\ \A h \in (j + 1)..(k - 1) : InRanges(Ord(s[h]), CaseIgnorable)

CasedAfter(s, k) ==
  \E j \in (k + 1)..Len(s) :
    /\ InRanges(Ord(s[j]), CasedLetters)
    /\ \A h \in (k + 1)..(j - 1) : InRanges(Ord(s[h]), CaseIgnorable)

FinalSigma(s, k) == CasedBefore(s, k) /\ ~CasedAfter(s, k)

\* The lower case of the character at index k with the code point n: below
\* U+00C0 only A to Z change; U+0130 becomes two characters.
LowerOf(s, k, n) ==
  IF n < 192 THEN <<(IF 65 <= n /\ n <= 90 THEN Chr(n + 32) ELSE s[k])>>
  ELSE IF n = 931 THEN <<(IF FinalSigma(s, k) THEN Chr(962) ELSE Chr(963))>>
  ELSE IF n = 304 THEN <<"i", Chr(775)>>
  ELSE <<Chr(LowerCode(n, LowerRunOf(n)))>>

\* str.lower()
Lower(s) == Concat([k \in 1..Len(s) |-> LowerOf(s, k, Ord(s[k]))], 1, Len(s))

NoLLMResponse == <<"N","o"," ","L","L","M"," ","r","e","s","p","o","n","s","e">>
InvalidPersonaColon == <<"I","n","v","a","l","i","d"," ","p","e","r","s","o","n","a",":">>

\* f"Invalid persona: {persona}"
InvalidPersona(persona) == InvalidPersonaColon \o <<" ">> \o persona

\* parsing.determine_skip_reason, applied to the row's Persona cell.
determine_skip_reason(persona) ==
  LET s == Strip(PyStr(OrEmpty(persona))) IN
  IF s = <<>> THEN NoLLMResponse
  ELSE IF s \notin VALID_PERSONAS THEN InvalidPersona(s)
  ELSE None

----------------------------------------------------------------------------
(* Numbers *)

Min_left(a, b) == a

Min(a, b) == IF a <= b THEN a ELSE b
Max(a, b) == IF a >= b THEN a ELSE b

\* The least member of a non-empty set of integers.
Least(S) == CHOOSE k \in S : \A h \in S : k <= h

Digits == <<"0","1","2","3","4","5","6","7","8","9">>

\* The characters 0 to 9.
AsciiDigits == {"0", "1", "2", "3", "4", "5", "6", "7", "8", "9"}

IsDigit(c) == c \in AsciiDigits

DigitVal(c) == (CHOOSE d \in 1..10 : Digits[d] = c) - 1

\* str(n) for n >= 0
RECURSIVE IntToStr(_)
IntToStr(n) ==
  IF n < 10 THEN <<Digits[n + 1]>> ELSE IntToStr(n \div 10) \o <<Digits[(n % 10) + 1]>>

\* Number of leading digits of s.
DigitRun(s) == FirstOutside(s, 1, AsciiDigits) - 1

\* int(s) for a text of at most 9 digits
RECURSIVE DigitsVal(_)
DigitsVal(s) ==
  IF s = <<>> THEN 0 ELSE 10 * DigitsVal(SubSeq(s, 1, Len(s) - 1)) + DigitVal(s[Len(s)])

AllDigits(s) == \A k \in 1..Len(s) : IsDigit(s[k])

DropLeadingZeros(d) == SubSeq(d, FirstOutside(d, 1, {"0"}), Len(d))

DropTrailingZeros(d) == SubSeq(d, 1, LastOutside(d, {"0"}))

Zeros(n) == [k \in 1..n |-> "0"]

Inf == <<"i","n","f">>
Infinity == <<"i","n","f","i","n","i","t","y">>
Nan == <<"n","a","n">>

----------------------------------------------------------------------------
(* Natural numbers of any size *)

\* A natural number is the sequence of its digits to the base 1000, the
\* lowest first and the highest not 0; <<>> is 0.
Limb(a, k) == IF k <= Len(a) THEN a[k] ELSE 0

\* The index of the highest digit that is not 0; 0 without one.
HighLimb(a) ==
  IF \A k \in 1..Len(a) : a[k] = 0 THEN 0
  ELSE CHOOSE k \in 1..Len(a) : a[k] # 0 /\ \A h \in (k + 1)..Len(a) : a[h] = 0

Trim(a) == SubSeq(a, 1, HighLimb(a))

\* A number below 2^31.
BigOfInt(n) ==
  Trim(<<n % 1000, (n \div 1000) % 1000, (n \div 1000000) % 1000, n \div 1000000000>>)

\* The nearest index below k whose column is not v; 0 without one.
NearestBelow(s, k, v) ==
  IF \A j \in 1..(k - 1) : s[j] = v THEN 0
  ELSE CHOOSE j \in 1..(k - 1) : s[j] # v /\ \A h \in (j + 1)..(k - 1) : s[h] = v

\* The carry into column k of the sums s of two digits: the nearest column
\* below that is not 999 decides.
CarryFrom(s, j) == IF j > 0 /\ s[j] >= 1000 THEN 1 ELSE 0

Carried(s) ==
  Trim([k \in 1..(Len(s) + 1) |->
          (Limb(s, k) + CarryFrom(s, NearestBelow(s, k, 999))) % 1000])

BigAdd(a, b) == Carried([k \in 1..Max(Len(a), Len(b)) |-> Limb(a, k) + Limb(b, k)])

\* The borrow from column k of the differences d of two digits: the nearest
\* column below that is not 0 decides.
BorrowFrom(d, j) == IF j > 0 /\ d[j] < 0 THEN 1 ELSE 0

Borrowed(d) ==
  Trim([k \in 1..Len(d) |-> (d[k] - BorrowFrom(d, NearestBelow(d, k, 0)) + 1000) % 1000])

\* a - b for a >= b
BigSub(a, b) == Borrowed([k \in 1..Len(a) |-> a[k] - Limb(b, k)])

\* a < b
BigLess(a, b) ==
  \/ Len(a) < Len(b)
  \/ /\ Len(a) = Len(b)
     /\ \E k \in 1..Len(a) : a[k] < b[k] /\ \A h \in (k + 1)..Len(a) : a[h] = b[h]

\* t[lo] + ... + t[hi]
RECURSIVE SumOf(_, _, _)
SumOf(t, lo, hi) ==
  IF lo > hi THEN 0
  ELSE IF lo = hi THEN t[lo]
  ELSE SumOf(t, lo, (lo + hi) \div 2) + SumOf(t, (lo + hi) \div 2 + 1, hi)

\* Column k of the long multiplication of a and b.
ColumnOver(a, b, k, lo, hi) == SumOf([j \in lo..hi |-> a[j] * b[k + 1 - j]], lo, hi)

Column(a, b, k) == ColumnOver(a, b, k, Max(1, k + 1 - Len(b)), Min(k, Len(a)))

\* The number whose columns c, each below 10^9, are given.
BigOfColumns(c) ==
  BigAdd(BigAdd(Trim([k \in 1..Len(c) |-> c[k] % 1000]),
                Trim(<<0>> \o [k \in 1..Len(c) |-> (c[k] \div 1000) % 1000])),
         Trim(<<0, 0>> \o [k \in 1..Len(c) |-> c[k] \div 1000000]))

BigMul(a, b) ==
  IF a = <<>> \/ b = <<>> THEN <<>>
  ELSE IF Len(a) = 1 /\ Len(b) = 1 THEN BigOfInt(a[1] * b[1])
  ELSE BigOfColumns([k \in 1..(Len(a) + Len(b) - 1) |-> Column(a, b, k)])

\* b^n from a lower power: b * b^(n - 1) for an odd n, else the square of
\* b^(n / 2).
TimesPower(b, power, odd) == BigMul(IF odd THEN b ELSE power, power)

\* b^n
RECURSIVE BigPow(_, _)
BigPow(b, n) ==
  IF n = 0 THEN <<1>>
  ELSE TimesPower(b, BigPow(b, IF n % 2 = 1 THEN n - 1 ELSE n \div 2), n % 2 = 1)

\* a * 10^n
BigShift(a, n) ==
  IF a = <<>> THEN <<>>
  ELSE [k \in 1..(n \div 3) |-> 0] \o BigMul(a, <<(<<1, 10, 100>>)[(n % 3) + 1]>>)

\* a \div 2
BigHalf(a) == Trim([k \in 1..Len(a) |-> (a[k] + 1000 * (Limb(a, k + 1) % 2)) \div 2])

\* The decimal digits of a.
LimbDigits(n) == <<Digits[n \div 100 + 1], Digits[((n \div 10) % 10) + 1], Digits[(n % 10) + 1]>>

BigDigits(a) ==
  IF a = <<>> THEN <<"0">>
  ELSE DropLeadingZeros([k \in 1..(3 * Len(a)) |->
                           LimbDigits(a[Len(a) - (k - 1) \div 3])[((k - 1) % 3) + 1]])

\* The number of a text of decimal digits.
DigitAt(d, j) == IF j >= 1 THEN DigitVal(d[j]) ELSE 0

BigOfDigits(d) ==
  Trim([k \in 1..((Len(d) + 2) \div 3) |->
          100 * DigitAt(d, Len(d) - 3 * k + 1) + 10 * DigitAt(d, Len(d) - 3 * k + 2)
            + DigitAt(d, Len(d) - 3 * k + 3)])

\* The number of decimal digits of a > 0.
DecimalLen(a) ==
  3 * (Len(a) - 1) + (IF a[Len(a)] >= 100 THEN 3 ELSE IF a[Len(a)] >= 10 THEN 2 ELSE 1)

\* The number of binary digits of a: it lies between the two estimates that
\* the number of decimal digits gives.
BelowPowerOfTwo(a, b) == BigLess(a, BigPow(<<2>>, b))

BitLenWithin(a, lo, hi) == Least({ b \in lo..hi : BelowPowerOfTwo(a, b) })

BitLenOf(a, n) == BitLenWithin(a, ((n - 1) * 3321) \div 1000 + 1, (n * 3322) \div 1000 + 1)

BitLen(a) == IF a = <<>> THEN 0 ELSE BitLenOf(a, DecimalLen(a))

\* floor(a / 10^n), and whether a is no multiple of 10^n, for the digits of
\* a * 10^pad where n + pad is a multiple of 3.
DownOf(padded, limbs) ==
  [q |-> SubSeq(padded, limbs + 1, Len(padded)),
   rest |-> \E k \in 1..Min(limbs, Len(padded)) : padded[k] # 0]

BigDown(a, n) == DownOf(BigShift(a, (3 - (n % 3)) % 3), (n + 2) \div 3)

----------------------------------------------------------------------------
(* Python floats: IEEE 754 binary64, rounded to nearest, ties to even *)

\* A finite float is its sign and m * 2^e with m odd, 0.0 being m = <<>> and
\* e = 0; m is below 2^53 and e at least -1074.
PyFloat(kind, neg, m, e) == [t |-> "float", kind |-> kind, neg |-> neg, m |-> m, e |-> e]

FloatZero(neg) == PyFloat("finite", neg, <<>>, 0)
FloatInf(neg) == PyFloat("inf", neg, <<>>, 0)
FloatNan == PyFloat("nan", FALSE, <<>>, 0)

\* m * 2^e with m made odd: 2^9 is taken out of m as long as it divides m,
\* then the power of two below 2^9 that is left.  m mod 2^9 is that of its
\* three lowest columns, and m / 2^t is m * 5^t / 10^t.
Low9(m) == (Limb(m, 1) + 1000 * Limb(m, 2) + 64 * Limb(m, 3)) % 512

Pow2Small(t) == (<<1, 2, 4, 8, 16, 32, 64, 128, 256, 512>>)[t + 1]

Pow5Small(t) == (<<1, 5, 25, 125, 625, 3125, 15625, 78125, 390625, 1953125>>)[t + 1]

TwosIn(n) == CHOOSE t \in 0..9 : n % Pow2Small(t) = 0 /\ (t = 9 \/ n % Pow2Small(t + 1) # 0)

DividedBy(m, t) == IF t = 0 THEN m ELSE BigDown(BigMul(m, BigOfInt(Pow5Small(t))), t).q

RECURSIVE OddTimes(_, _)

OddOrOn(m, e, even) == IF even THEN OddTimes(m, e) ELSE [m |-> m, e |-> e]

OddTimes(m, e) ==
  IF m = <<>> THEN [m |-> <<>>, e |-> 0]
  ELSE OddOrOn(DividedBy(m, TwosIn(Low9(m))), e + TwosIn(Low9(m)), Low9(m) = 0)

\* The float of q * 2^e for q below 2^54, a number below 2^top: inf from
\* 2^1024 on.
FloatOfOdd(neg, x, top) ==
  IF x.m = <<>> THEN FloatZero(neg)
  ELSE IF top > 1024 THEN FloatInf(neg)
  ELSE PyFloat("finite", neg, x.m, x.e)

FloatOfBits(neg, q, e) == FloatOfOdd(neg, OddTimes(q, e), BitLen(q) + e)

\* big \div 2^d for d in 0..3
RECURSIVE HalvedBy(_, _)
HalvedBy(big, d) == IF d = 0 THEN big ELSE HalvedBy(BigHalf(big), d - 1)

\* big * 2^e with a remainder (rest) below it is rounded to the float q * 2^(e + d)
\* where d binary digits are dropped: up when more than half is dropped, or
\* just half and q is odd.
RoundedUp(q, low, half, rest) ==
  low > half \/ (low = half /\ (rest \/ (q # <<>> /\ q[1] % 2 = 1)))

RoundDropped(neg, q, low, half, rest, e) ==
  FloatOfBits(neg, IF RoundedUp(q, low, half, rest) THEN BigAdd(q, <<1>>) ELSE q, e)

Pow2Int(d) == (<<1, 2, 4, 8>>)[d + 1]

RoundDrop(neg, big, rest, e, d) ==
  RoundDropped(neg, HalvedBy(big, d), (big[1] % Pow2Int(d)), Pow2Int(d - 1), rest, e + d)

\* big has 54 or 55 binary digits, or fewer when e = -1075.
RoundBig(neg, big, rest, e) ==
  IF big = <<>> THEN FloatZero(neg)
  ELSE RoundDrop(neg, big, rest, e, Max(BitLen(big) - 53, 1))

RoundDown(neg, down, more, e) == RoundBig(neg, down.q, down.rest \/ more, e)

\* The float nearest to n * 2^x / 10^k, or to a number between that and the
\* next such n when more holds; the float is q * 2^e with floor(log2) of the
\* number between e + 53 and e + 54.
RoundAt(neg, n, x, k, more, e) ==
  RoundDown(neg,
            BigDown(BigMul(n, BigPow(IF x >= e THEN <<2>> ELSE <<5>>,
                                     IF x >= e THEN x - e ELSE e - x)),
                    IF x >= e THEN k ELSE k + e - x),
            more, e)

RoundFrom(neg, n, x, k, more, low) ==
  IF low > 1025 THEN FloatInf(neg)
  ELSE IF low < -1080 THEN FloatZero(neg)
  ELSE RoundAt(neg, n, x, k, more, Max(low - 53, -1075))

FloatOfRatio(neg, n, x, k, more) ==
  IF n = <<>> THEN FloatZero(neg)
  ELSE RoundFrom(neg, n, x, k, more,
                 BitLen(n) - (IF k = 0 THEN 1 ELSE BitLen(BigShift(<<1>>, k))) - 1 + x)

\* float(n) for an int n of the checker, n >= 0
FloatOfNat(n) == FloatOfRatio(FALSE, BigOfInt(n), 0, 0, FALSE)

\* The float of the decimal sig * 10^x, sig a text of digits that neither
\* starts nor ends with 0: inf above the largest float, 0.0 below half the
\* smallest.  Of more than 800 digits the first 800 decide, but for a tie.
FloatOfDigits(neg, sig, x) ==
  IF sig = <<>> THEN FloatZero(neg)
  ELSE IF x + Len(sig) > 310 THEN FloatInf(neg)
  ELSE IF x + Len(sig) < -324 THEN FloatZero(neg)
  ELSE FloatOfRatio(neg,
                    BigShift(BigOfDigits(SubSeq(sig, 1, Min(Len(sig), 800))),
                             IF Len(sig) <= 800 /\ x >= 0 THEN x ELSE 0),
                    0,
                    IF Len(sig) > 800 THEN -(x + Len(sig) - 800)
                    ELSE IF x >= 0 THEN 0 ELSE -x,
                    Len(sig) > 800)

FloatOfSignificant(neg, sig, x) ==
  FloatOfDigits(neg, DropTrailingZeros(sig), x + (Len(sig) - Len(DropTrailingZeros(sig))))

\* The float of whole.frac * 10^exponent
FloatOfDecimal(neg, whole, frac, exponent) ==
  FloatOfSignificant(neg, DropLeadingZeros(whole \o frac), exponent - Len(frac))

\* |x| as a natural number of units of 2^e, for e <= x.e
ScaledTo(x, e) == BigMul(x.m, BigPow(<<2>>, x.e - e))

\* |x| < |y| for two finite floats
MagLess(x, y) ==
  IF x.m = <<>> THEN y.m # <<>>
  ELSE IF y.m = <<>> THEN FALSE
  ELSE BigLess(ScaledTo(x, Min(x.e, y.e)), ScaledTo(y, Min(x.e, y.e)))

\* x < y
FloatLess(x, y) ==
  IF x.kind = "nan" \/ y.kind = "nan" THEN FALSE
  ELSE IF x.kind = "inf" THEN x.neg /\ ~(y.kind = "inf" /\ y.neg)
  ELSE IF y.kind = "inf" THEN ~y.neg
  ELSE IF x.neg /\ ~y.neg THEN x.m # <<>> \/ y.m # <<>>
  ELSE IF ~x.neg /\ y.neg THEN FALSE
  ELSE IF x.neg THEN MagLess(y, x)
  ELSE MagLess(x, y)

\* x <= y
FloatLeq(x, y) == x.kind # "nan" /\ y.kind # "nan" /\ ~FloatLess(y, x)

\* min(x, y) and max(x, y): the first unless the second is beyond it.
FloatMin(x, y) == IF FloatLess(y, x) THEN y ELSE x
FloatMax(x, y) == IF FloatLess(x, y) THEN y ELSE x

\* x + y for two finite floats of which neither is 0
SumOfScaled(xneg, a, yneg, b, e) ==
  IF xneg # yneg /\ a = b THEN FloatZero(FALSE)
  ELSE FloatOfRatio(IF xneg # yneg /\ BigLess(a, b) THEN yneg ELSE xneg,
                    IF xneg = yneg THEN BigAdd(a, b)
                    ELSE IF BigLess(a, b) THEN BigSub(b, a) ELSE BigSub(a, b),
                    e, 0, FALSE)

\* x + y
FloatAdd(x, y) ==
  IF x.kind = "nan" \/ y.kind = "nan" THEN FloatNan
  ELSE IF x.kind = "inf"
    THEN (IF y.kind = "inf" /\ x.neg # y.neg THEN FloatNan ELSE x)
  ELSE IF y.kind = "inf" THEN y
  ELSE IF x.m = <<>> /\ y.m = <<>> THEN FloatZero(x.neg /\ y.neg)
  ELSE IF y.m = <<>> THEN x
  ELSE IF x.m = <<>> THEN y
  ELSE SumOfScaled(x.neg, ScaledTo(x, Min(x.e, y.e)), y.neg, ScaledTo(y, Min(x.e, y.e)),
                   Min(x.e, y.e))

\* The decimal of |x| for a finite float: the digits of a natural number and
\* how many of them stand after the point.
DecimalOf(x) ==
  [digits |-> BigDigits(BigMul(x.m, BigPow(IF x.e >= 0 THEN <<2>> ELSE <<5>>,
                                           IF x.e >= 0 THEN x.e ELSE -x.e))),
   places |-> IF x.e >= 0 THEN 0 ELSE -x.e]

\* The digits before the point of a decimal, "0" without any, and those after.
WholeOf(d) ==
  IF Len(d.digits) > d.places THEN SubSeq(d.digits, 1, Len(d.digits) - d.places)
  ELSE <<"0">>

FractionOf(d) ==
  IF Len(d.digits) >= d.places
  THEN SubSeq(d.digits, Len(d.digits) - d.places + 1, Len(d.digits))
  ELSE Zeros(d.places - Len(d.digits)) \o d.digits

\* The text of digits d plus 1.
Successor(d) ==
  IF LastOutside(d, {"9"}) = 0 THEN <<"1">> \o Zeros(Len(d))
  ELSE SubSeq(d, 1, LastOutside(d, {"9"}) - 1)
         \o <<Digits[DigitVal(d[LastOutside(d, {"9"})]) + 2]>>
         \o Zeros(Len(d) - LastOutside(d, {"9"}))

\* whole.frac rounded to a whole number, ties to the even neighbour.
RoundedWhole(whole, frac) ==
  IF frac = <<>> \/ DigitVal(frac[1]) < 5 THEN whole
  ELSE IF DigitVal(frac[1]) > 5 \/ (\E k \in 2..Len(frac) : frac[k] # "0") THEN Successor(whole)
  ELSE IF DigitVal(whole[Len(whole)]) % 2 = 1 THEN Successor(whole)
  ELSE whole

\* f"{x:.0f}" for a float x: rounded to a whole number, ties to the even
\* neighbour, the sign kept also before 0.
RoundedDecimal(d) == RoundedWhole(WholeOf(d), FractionOf(d))

FormatRound0(x) ==
  IF x.kind = "nan" THEN Nan
  ELSE (IF x.neg THEN <<"-">> ELSE <<>>)
         \o (IF x.kind = "inf" THEN Inf ELSE RoundedDecimal(DecimalOf(x)))

\* The 53 binary digits of a finite float other than 0.0: x = sig * 2^e with
\* 2^52 <= sig < 2^53, or sig < 2^52 and e = -1074.
Significand(x, e) == [sig |-> ScaledTo(x, e), e |-> e]

SignificandOf(x) == Significand(x, Max(x.e - (53 - BitLen(x.m)), -1074))

TwoTo52 == <<496, 370, 627, 599, 503, 4>>

\* The numbers that round to the float s.sig * 2^s.e lie between low and high,
\* which are half way to its neighbours; the three are natural numbers of
\* units of 2^(s.e - 2).  Below a power of 2 the neighbour is half as far.
Around(s, value) ==
  [value |-> value,
   low |-> BigSub(value, IF s.sig = TwoTo52 /\ s.e > -1074 THEN <<1>> ELSE <<2>>),
   high |-> BigAdd(value, <<2>>),
   closed |-> s.sig[1] % 2 = 0,
   e |-> s.e - 2]

IntervalOf(s) == Around(s, BigMul(s.sig, <<4>>))

\* The same three as texts of digits with as many places after the point.
UnitDigits(n, e) ==
  BigDigits(BigMul(n, BigPow(IF e >= 0 THEN <<2>> ELSE <<5>>, IF e >= 0 THEN e ELSE -e)))

Padded(d, width) == Zeros(width - Len(d)) \o d

DecimalInterval(v, d) ==
  [value |-> Padded(d[1], Len(d[3]) + 1),
   low |-> Padded(d[2], Len(d[3]) + 1),
   high |-> Padded(d[3], Len(d[3]) + 1),
   closed |-> v.closed,
   places |-> IF v.e >= 0 THEN 0 ELSE -v.e]

DecimalIntervalOf(v) ==
  DecimalInterval(v, [j \in 1..3 |-> UnitDigits((<<v.value, v.low, v.high>>)[j], v.e)])

\* a < b for two texts of digits of the same length
TextLess(a, b) ==
  \E k \in 1..Len(a) :
    DigitVal(a[k]) < DigitVal(b[k]) /\ \A h \in 1..(k - 1) : a[h] = b[h]

\* The text c lies between the bounds of the interval.
Inside(c, v) ==
  IF v.closed THEN ~TextLess(c, v.low) /\ ~TextLess(v.high, c)
  ELSE TextLess(v.low, c) /\ TextLess(c, v.high)

\* The value cut after index k, and the next text of that length above it.
CutAt(d, k) == IF k >= Len(d) THEN d ELSE SubSeq(d, 1, k) \o Zeros(Len(d) - k)

AboveCut(d, k) ==
  IF k >= Len(d) THEN d ELSE Successor(SubSeq(d, 1, k)) \o Zeros(Len(d) - k)

\* Of the two, the one nearer to the value: the tail after index k against
\* one half, a tie going to the even digit.
NearerIsAbove(d, k) ==
  k < Len(d)
    /\ \/ DigitVal(d[k + 1]) > 5
       \/ /\ d[k + 1] = "5"
          /\ \/ \E h \in (k + 2)..Len(d) : d[h] # "0"
             \/ DigitVal(d[k]) % 2 = 1

\* The shortest text that rounds to the float, cut after index k or later.
ShortestAt(v, k) ==
  IF Inside(CutAt(v.value, k), v) /\ Inside(AboveCut(v.value, k), v)
  THEN (IF NearerIsAbove(v.value, k) THEN AboveCut(v.value, k) ELSE CutAt(v.value, k))
  ELSE IF Inside(CutAt(v.value, k), v) THEN CutAt(v.value, k)
  ELSE AboveCut(v.value, k)

ShortestFrom(v, first) ==
  ShortestAt(v, CHOOSE k \in first..(first + 16) :
                  /\ Inside(CutAt(v.value, k), v) \/ Inside(AboveCut(v.value, k), v)
                  /\ \A h \in first..(k - 1) :
                       ~Inside(CutAt(v.value, h), v) /\ ~Inside(AboveCut(v.value, h), v))

\* The shortest decimal that rounds to the float: its digits as a natural
\* number with the places after the point.
ShortestDecimal(v) ==
  [digits |-> ShortestFrom(v, FirstOutside(v.value, 1, {"0"})), places |-> v.places]

\* The significant digits d1 d2 ... of a decimal and the exponent of
\* d1.d2... * 10^exp
Scientific(d) ==
  [digits |-> DropTrailingZeros(DropLeadingZeros(d.digits)),
   exp |-> Len(d.digits) - FirstOutside(d.digits, 1, {"0"}) - d.places]

Pad2(d) == IF Len(d) < 2 THEN <<"0">> \o d ELSE d

\* repr(x) of a finite float other than 0.0, without its sign
FloatDigitsRepr(d, e) ==
  IF e < -4 \/ e >= 16
  THEN <<d[1]>> \o (IF Len(d) > 1 THEN <<".">> \o Tail(d) ELSE <<>>)
         \o <<"e">> \o (IF e < 0 THEN <<"-">> \o Pad2(IntToStr(-e))
                        ELSE <<"+">> \o Pad2(IntToStr(e)))
  ELSE IF e < 0 THEN <<"0",".">> \o Zeros(-e - 1) \o d
  ELSE IF Len(d) <= e + 1 THEN d \o Zeros(e + 1 - Len(d)) \o <<".","0">>
  ELSE SubSeq(d, 1, e + 1) \o <<".">> \o SubSeq(d, e + 2, Len(d))

ScientificRepr(s) == FloatDigitsRepr(s.digits, s.exp)

\* repr(x) of a float
FloatRepr(x) ==
  IF x.kind = "nan" THEN Nan
  ELSE (IF x.neg THEN <<"-">> ELSE <<>>)
         \o (IF x.kind = "inf" THEN Inf
             ELSE IF x.m = <<>> THEN <<"0",".","0">>
             ELSE ScientificRepr(Scientific(ShortestDecimal(
                    DecimalIntervalOf(IntervalOf(SignificandOf(x)))))))

\* The digits before the point of a finite float.
TruncatedDigits(x) == WholeOf(DecimalOf(x))
----------------------------------------------------------------------------
(* Python dicts *)
\* A dict is the sequence of its <<key, value>> items in insertion order.
DictHas(d, key) == \E k \in 1..Len(d) : d[k][1] = key

\* d[key] = value
DictSet(d, key, value) ==
  IF DictHas(d, key)
  THEN [k \in 1..Len(d) |-> IF d[k][1] = key THEN <<key, value>> ELSE d[k]]
  ELSE Append(d, <<key, value>>)

\* d.get(key, default)
DictGet(d, key, default) ==
  IF DictHas(d, key) THEN d[CHOOSE k \in 1..Len(d) : d[k][1] = key][2] ELSE default

\* The value that a set of <<key, value>> pairs holds for a key.
Lookup(pairs, key) == (CHOOSE pair \in pairs : pair[1] = key)[2]

----------------------------------------------------------------------------
(* Python values as json.loads builds them, with bool(), str(), repr(),
   int(), float() and subscription on them *)

\* The value of a hexadecimal digit in either case, -1 for any other character.
UpperHexDigits == <<"A","B","C","D","E","F">>

HexVal(c) ==
  IF \E d \in 1..16 : HexDigits[d] = c THEN (CHOOSE d \in 1..16 : HexDigits[d] = c) - 1
  ELSE IF \E d \in 1..6 : UpperHexDigits[d] = c
    THEN (CHOOSE d \in 1..6 : UpperHexDigits[d] = c) + 9
  ELSE -1

\* The values by the name of their type; PyFloat is defined with the floats.
PyNone == [t |-> "NoneType"]
PyBool(b) == [t |-> "bool", b |-> b]
PyInt(neg, digits) == [t |-> "int", neg |-> neg, digits |-> digits]
PyText(s) == [t |-> "str", s |-> s]
PyList(items) == [t |-> "list", items |-> items]
PyDict(pairs) == [t |-> "dict", pairs |-> pairs]

\* An int is its sign and its decimal digits without leading zeros.
Zero == PyInt(FALSE, <<"0">>)

TypeName(v) ==
  IF v.t = "NoneType" THEN <<"N","o","n","e","T","y","p","e">>
  ELSE IF v.t = "bool" THEN <<"b","o","o","l">>
  ELSE IF v.t = "int" THEN <<"i","n","t">>
  ELSE IF v.t = "float" THEN <<"f","l","o","a","t">>
  ELSE IF v.t = "str" THEN <<"s","t","r">>
  ELSE IF v.t = "list" THEN <<"l","i","s","t">>
  ELSE <<"d","i","c","t">>

\* bool(v)
Truthy(v) ==
  IF v.t = "NoneType" THEN FALSE
  ELSE IF v.t = "bool" THEN v.b
  ELSE IF v.t = "int" THEN v.digits # <<"0">>
  ELSE IF v.t = "float" THEN v.kind # "finite" \/ v.m # <<>>
  ELSE IF v.t = "str" THEN v.s # <<>>
  ELSE IF v.t = "list" THEN v.items # <<>>
  ELSE v.pairs # <<>>

\* What an operation gives: a value, or an exception with its text.
Return(v) == [ok |-> TRUE, v |-> v]
Raise(exc, msg) == [ok |-> FALSE, exc |-> exc, msg |-> msg]

IntFromDigits(neg, d) == IF d = <<>> THEN Zero ELSE PyInt(neg, d)

\* str(n) for an int
IntText(n) == (IF n.neg THEN <<"-">> ELSE <<>>) \o n.digits

\* The digits of an exponent as a number; 999999 stands for all above it.
ExponentDigits(d) == IF Len(d) > 6 THEN 999999 ELSE DigitsVal(d)

\* The exponent of a float literal: an optional sign and digits.
ExponentValue(x) ==
  IF x # <<>> /\ Head(x) = "-" THEN -ExponentDigits(DropLeadingZeros(Tail(x)))
  ELSE IF x # <<>> /\ Head(x) = "+" THEN ExponentDigits(DropLeadingZeros(Tail(x)))
  ELSE ExponentDigits(DropLeadingZeros(x))

\* One character of repr(s) inside the quote q: the backslash, the quote,
\* \n, \r and \t are escaped, and every character that is not printable is
\* written as \xNN, \uXXXX or \UXXXXXXXX.
EscapeChar(c, q) ==
  IF c = "\\" THEN <<"\\","\\">>
  ELSE IF c = q THEN <<"\\", q>>
  ELSE IF c = "\n" THEN <<"\\","n">>
  ELSE IF c = "\r" THEN <<"\\","r">>
  ELSE IF c = "\t" THEN <<"\\","t">>
  ELSE IF IsPrintable(c) THEN <<c>>
  ELSE IF Ord(c) < 256 THEN <<"\\", "x", HexOf(Ord(c) \div 16), HexOf(Ord(c))>>
  ELSE CharsOf(c)

Escaped(s, q) == Concat([k \in 1..Len(s) |-> EscapeChar(s[k], q)], 1, Len(s))

Quoted(s, q) == <<q>> \o Escaped(s, q) \o <<q>>

\* repr(s) of a str: in double quotes when s holds ' and no "
StrRepr(s) ==
  Quoted(s, IF (\E k \in 1..Len(s) : s[k] = "'") /\ (\A k \in 1..Len(s) : s[k] # "\"")
            THEN "\"" ELSE "'")

RECURSIVE PyRepr(_), ReprItems(_), ReprPairs(_)
\* repr(v)
PyRepr(v) ==
  IF v.t = "NoneType" THEN <<"N","o","n","e">>
  ELSE IF v.t = "bool" THEN (IF v.b THEN <<"T","r","u","e">> ELSE <<"F","a","l","s","e">>)
  ELSE IF v.t = "int" THEN IntText(v)
  ELSE IF v.t = "float" THEN FloatRepr(v)
  ELSE IF v.t = "str" THEN StrRepr(v.s)
  ELSE IF v.t = "list" THEN <<"[">> \o ReprItems(v.items) \o <<"]">>
  ELSE <<"{">> \o ReprPairs(v.pairs) \o <<"}">>

ReprItems(items) ==
  IF items = <<>> THEN <<>>
  ELSE IF Len(items) = 1 THEN PyRepr(items[1])
  ELSE PyRepr(items[1]) \o <<","," ">> \o ReprItems(Tail(items))

ReprPairs(pairs) ==
  IF pairs = <<>> THEN <<>>
  ELSE StrRepr(pairs[1][1]) \o <<":"," ">> \o PyRepr(pairs[1][2])
         \o (IF Len(pairs) = 1 THEN <<>> ELSE <<","," ">> \o ReprPairs(Tail(pairs)))

\* str(v)
PyStrOf(v) == IF v.t = "str" THEN v.s ELSE PyRepr(v)

\* The characters that int() and float() pass over at the ends of a text:
\* space, \t, \n, \v, \f and \r.
AsciiBlanks == {" ", "\t", "\n", Chr(11), "\f", "\r"}

\* What int() and float() read of a text that is not all ASCII: a character
\* below U+007F as it is, whitespace as a space, a decimal digit of any
\* script as the ASCII digit of its value, any other character as "?".
AsciiOf(c, n) ==
  IF n < 127 THEN c
  ELSE IF c \in Whitespace THEN " "
  ELSE IF DecimalValue(n) >= 0 THEN Digits[DecimalValue(n) + 1]
  ELSE "?"

DecimalAndSpaceToAscii(s) ==
  IF \A k \in 1..Len(s) : IsAscii(s[k]) THEN s
  ELSE [k \in 1..Len(s) |-> AsciiOf(s[k], Ord(s[k]))]

\* The text without its "_" characters.
WithoutUnderscores(u) == SelectSeq(u, LAMBDA c : c # "_")

\* float() allows "_" between two digits only.
UnderscoresBetweenDigits(u) ==
  \A k \in 1..Len(u) :
    u[k] = "_" => k > 1 /\ k < Len(u) /\ IsDigit(u[k - 1]) /\ IsDigit(u[k + 1])

\* float(s) raises ValueError.
ValueError == [kind |-> "ValueError"]

\* A text split after its first n characters.
SplitAt(u, n) == [digits |-> SubSeq(u, 1, n), rest |-> SubSeq(u, n + 1, Len(u))]

\* A text split after its leading digits.
TakeDigits(u) == SplitAt(u, DigitRun(u))

\* The decimal whole.frac * 10^exponent as it was read.
Finite(whole, frac, exponent) ==
  [kind |-> "finite", whole |-> whole, frac |-> frac, exponent |-> exponent]

\* The exponent: an optional sign, then digits only, at least one.
ExponentOf(whole, frac, x, digits) ==
  IF digits = <<>> \/ DigitRun(digits) # Len(digits) THEN ValueError
  ELSE Finite(whole, frac, ExponentValue(x))

\* After the digits before the point (whole) and those after it (b.digits):
\* at least one digit in all, then the end or an exponent.
ParseExponent(whole, b) ==
  IF whole \o b.digits = <<>> THEN ValueError
  ELSE IF b.rest = <<>> THEN Finite(whole, b.digits, 0)
  ELSE IF Head(b.rest) \notin {"e", "E"} THEN ValueError
  ELSE ExponentOf(whole, b.digits, Tail(b.rest),
                  IF Len(b.rest) > 1 /\ b.rest[2] \in {"+", "-"}
                  THEN SubSeq(b.rest, 3, Len(b.rest)) ELSE Tail(b.rest))

\* After the leading digits: an optional point with the digits after it.
ParseFraction(a) ==
  ParseExponent(a.digits,
                IF a.rest # <<>> /\ Head(a.rest) = "." THEN TakeDigits(Tail(a.rest))
                ELSE [digits |-> <<>>, rest |-> a.rest])

\* The unsigned decimal u: digits with an optional point, at least one digit,
\* and an optional exponent e[+-]digits; anything else is ValueError.
ParseDecimal(u) == ParseFraction(TakeDigits(u))

\* The float of a text without blanks at its ends: the sign u starts with,
\* then body, "inf", "infinity" or "nan" in any case or a decimal.
SignedFloat(neg, body, parsed) ==
  IF Lower(body) \in {Inf, Infinity} THEN FloatInf(neg)
  ELSE IF Lower(body) = Nan THEN FloatNan
  ELSE IF parsed = ValueError THEN ValueError
  ELSE FloatOfDecimal(neg, parsed.whole, parsed.frac, parsed.exponent)

FloatOfStripped(u, body) ==
  IF ~UnderscoresBetweenDigits(u) THEN ValueError
  ELSE SignedFloat(u # <<>> /\ Head(u) = "-", body, ParseDecimal(WithoutUnderscores(body)))

FloatOf(u) == FloatOfStripped(u, IF u # <<>> /\ Head(u) \in {"+", "-"} THEN Tail(u) ELSE u)

\* float(s) for a text s: the blanks at its ends are dropped, a sign may
\* lead, "inf", "infinity" and "nan" are read in any case; the result is a
\* float or ValueError.
ParseFloat(s) == FloatOf(StripOf(DecimalAndSpaceToAscii(s), AsciiBlanks))

InvalidLiteral == <<"i","n","v","a","l","i","d"," ","l","i","t","e","r","a","l"," ","f","o","r"," ","i","n","t","(",")"," ","w","i","t","h"," ","b","a","s","e"," ","1","0",":"," ">>

ExceedsLimit(n) ==
  <<"E","x","c","e","e","d","s"," ","t","h","e"," ","l","i","m","i","t"," ","(","4","3","0","0"," ","d","i","g","i","t","s",")"," ","f","o","r"," ","i","n","t","e","g","e","r"," ","s","t","r","i","n","g"," ","c","o","n","v","e","r","s","i","o","n",":"," ","v","a","l","u","e"," ","h","a","s"," ">>
    \o IntToStr(n) \o <<" ","d","i","g","i","t","s",";"," ","u","s","e"," ","s","y","s",".","s","e","t","_","i","n","t","_","m","a","x","_","s","t","r","_","d","i","g","i","t","s","(",")"," ","t","o"," ","i","n","c","r","e","a","s","e"," ","t","h","e"," ","l","i","m","i","t">>

\* "%.200R" of the text
InvalidLiteralFor(s) ==
  Raise("ValueError", InvalidLiteral \o SubSeq(StrRepr(s), 1, Min(200, Len(StrRepr(s)))))

\* The digits and underscores that body starts with (run): an underscore must
\* follow a digit and be followed by one; then the number of digits is held
\* against the limit of 4300 (sys.get_int_max_str_digits()); then nothing may
\* follow the run.
IntOfRun(s, neg, body, run) ==
  IF run # <<>> /\ (run[1] = "_" \/ run[Len(run)] = "_" \/ Contains(run, <<"_","_">>))
    THEN InvalidLiteralFor(s)
  ELSE IF Len(WithoutUnderscores(run)) > 4300
    THEN Raise("ValueError", ExceedsLimit(Len(WithoutUnderscores(run))))
  ELSE IF run = <<>> \/ Len(run) < Len(body) THEN InvalidLiteralFor(s)
  ELSE Return(IntFromDigits(neg, DropLeadingZeros(WithoutUnderscores(run))))

IntOfBody(s, neg, body) ==
  IntOfRun(s, neg, body, SubSeq(body, 1, FirstOutside(body, 1, AsciiDigits \cup {"_"}) - 1))

IntOfStripped(s, u) ==
  IntOfBody(s, u # <<>> /\ Head(u) = "-",
            IF u # <<>> /\ Head(u) \in {"+", "-"} THEN Tail(u) ELSE u)

\* int(s) of a str: the blanks at its ends are dropped, a sign may lead, "_"
\* may stand between two digits.
IntOfText(s) == IntOfStripped(s, StripOf(DecimalAndSpaceToAscii(s), AsciiBlanks))

\* int(x) of a finite float: the digits before the point.
Truncated(x) == IntFromDigits(x.neg, DropLeadingZeros(TruncatedDigits(x)))

\* int(v)
IntOf(v) ==
  IF v.t = "int" THEN Return(v)
  ELSE IF v.t = "bool" THEN Return(PyInt(FALSE, IF v.b THEN <<"1">> ELSE <<"0">>))
  ELSE IF v.t = "str" THEN IntOfText(v.s)
  ELSE IF v.t = "float"
    THEN IF v.kind = "nan" THEN Raise("ValueError", <<"c","a","n","n","o","t"," ","c","o","n","v","e","r","t"," ","f","l","o","a","t"," ","N","a","N"," ","t","o"," ","i","n","t","e","g","e","r">>)
         ELSE IF v.kind = "inf" THEN Raise("OverflowError", <<"c","a","n","n","o","t"," ","c","o","n","v","e","r","t"," ","f","l","o","a","t"," ","i","n","f","i","n","i","t","y"," ","t","o"," ","i","n","t","e","g","e","r">>)
         ELSE Return(Truncated(v))
  ELSE Raise("TypeError", <<"i","n","t","(",")"," ","a","r","g","u","m","e","n","t"," ","m","u","s","t"," ","b","e"," ","a"," ","s","t","r","i","n","g",","," ","a"," ","b","y","t","e","s","-","l","i","k","e"," ","o","b","j","e","c","t"," ","o","r"," ","a"," ","r","e","a","l"," ","n","u","m","b","e","r",","," ","n","o","t"," ","'">> \o TypeName(v) \o <<"'">>)

NotSubscriptable(v) ==
  Raise("TypeError", <<"'">> \o TypeName(v) \o <<"'"," ","o","b","j","e","c","t"," ","i","s"," ","n","o","t"," ","s","u","b","s","c","r","i","p","t","a","b","l","e">>)

\* v[key] for a key that is a str or the index 0
Subscript(v, key) ==
  IF v.t = "dict"
  THEN IF key.t = "str" /\ DictHas(v.pairs, key.s)
       THEN Return(DictGet(v.pairs, key.s, PyNone))
       ELSE Raise("KeyError", PyRepr(key))
  ELSE IF v.t = "list"
  THEN IF key.t = "str" THEN Raise("TypeError", <<"l","i","s","t"," ","i","n","d","i","c","e","s"," ","m","u","s","t"," ","b","e"," ","i","n","t","e","g","e","r","s"," ","o","r"," ","s","l","i","c","e","s",","," ","n","o","t"," ","s","t","r">>)
       ELSE IF v.items = <<>> THEN Raise("IndexError", <<"l","i","s","t"," ","i","n","d","e","x"," ","o","u","t"," ","o","f"," ","r","a","n","g","e">>)
       ELSE Return(v.items[1])
  ELSE IF v.t = "str"
  THEN IF key.t = "str" THEN Raise("TypeError", <<"s","t","r","i","n","g"," ","i","n","d","i","c","e","s"," ","m","u","s","t"," ","b","e"," ","i","n","t","e","g","e","r","s",","," ","n","o","t"," ","'","s","t","r","'">>)
       ELSE IF v.s = <<>> THEN Raise("IndexError", <<"s","t","r","i","n","g"," ","i","n","d","e","x"," ","o","u","t"," ","o","f"," ","r","a","n","g","e">>)
       ELSE Return(PyText(<<v.s[1]>>))
  ELSE NotSubscriptable(v)

\* r[keys[k]][keys[k + 1]]... when r is a value: the subscripts are taken
\* from left to right and the first exception ends them.
RECURSIVE Path(_, _, _)
Path(r, keys, k) ==
  IF k > Len(keys) \/ ~r.ok THEN r ELSE Path(Subscript(r.v, keys[k]), keys, k + 1)

NoAttribute(v, name) ==
  Raise("AttributeError", <<"'">> \o TypeName(v) \o <<"'"," ","o","b","j","e","c","t"," ","h","a","s"," ","n","o"," ","a","t","t","r","i","b","u","t","e"," ","'">> \o name \o <<"'">>)

\* v.get(key, default)
Get(v, key, default) ==
  IF v.t = "dict" THEN Return(DictGet(v.pairs, key, default))
  ELSE NoAttribute(v, <<"g","e","t">>)

\* r.get(key, default) when r is a value, r when it is an exception
ThenGet(r, key, default) == IF r.ok THEN Get(r.v, key, default) ELSE r

\* `for x in v`: the items of a list, the keys of a dict, the characters of
\* a str; no other value can be iterated.
Iterated(v) ==
  IF v.t = "list" THEN Return(v.items)
  ELSE IF v.t = "dict" THEN Return([k \in 1..Len(v.pairs) |-> PyText(v.pairs[k][1])])
  ELSE IF v.t = "str" THEN Return([k \in 1..Len(v.s) |-> PyText(<<v.s[k]>>)])
  ELSE Raise("TypeError", <<"'">> \o TypeName(v) \o <<"'"," ","o","b","j","e","c","t"," ","i","s"," ","n","o","t"," ","i","t","e","r","a","b","l","e">>)

\* `name in v` for a str name: a key of a dict, an item of a list, a part of
\* a str.
NameIn(name, v) ==
  IF v.t = "dict" THEN Return(DictHas(v.pairs, name))
  ELSE IF v.t = "list" THEN Return(\E k \in 1..Len(v.items) : v.items[k] = PyText(name))
  ELSE IF v.t = "str" THEN Return(Contains(v.s, name))
  ELSE Raise("TypeError", <<"a","r","g","u","m","e","n","t"," ","o","f"," ","t","y","p","e"," ","'">> \o TypeName(v) \o <<"'"," ","i","s"," ","n","o","t"," ","i","t","e","r","a","b","l","e">>)

----------------------------------------------------------------------------
(* json.loads *)

JsonWhitespace == {" ", "\t", "\n", "\r"}

\* Characters below U+0020, which a JSON string must not hold.
ControlCharacters == { Chr(n) : n \in 0..31 }

ExpectingValue == <<"E","x","p","e","c","t","i","n","g"," ","v","a","l","u","e">>
ExtraData == <<"E","x","t","r","a"," ","d","a","t","a">>
ExpectingName == <<"E","x","p","e","c","t","i","n","g"," ","p","r","o","p","e","r","t","y"," ","n","a","m","e"," ","e","n","c","l","o","s","e","d"," ","i","n"," ","d","o","u","b","l","e"," ","q","u","o","t","e","s">>
ExpectingColon == <<"E","x","p","e","c","t","i","n","g"," ","'",":","'"," ","d","e","l","i","m","i","t","e","r">>
ExpectingComma == <<"E","x","p","e","c","t","i","n","g"," ","'",",","'"," ","d","e","l","i","m","i","t","e","r">>
UnterminatedString == <<"U","n","t","e","r","m","i","n","a","t","e","d"," ","s","t","r","i","n","g"," ","s","t","a","r","t","i","n","g"," ","a","t">>
InvalidControl == <<"I","n","v","a","l","i","d"," ","c","o","n","t","r","o","l"," ","c","h","a","r","a","c","t","e","r"," ","a","t">>
InvalidEscape == <<"I","n","v","a","l","i","d"," ","\\","e","s","c","a","p","e">>
UnexpectedBOM == <<"U","n","e","x","p","e","c","t","e","d"," ","U","T","F","-","8"," ","B","O","M"," ","(","d","e","c","o","d","e"," ","u","s","i","n","g"," ","u","t","f","-","8","-","s","i","g",")">>
InvalidUnicodeEscape == <<"I","n","v","a","l","i","d"," ","\\","u","X","X","X","X"," ","e","s","c","a","p","e">>

\* What the scanner gives at an index of the text (1-based): a value and the
\* index after it, or a message and the index it is about.  An integer of
\* more than 4300 digits makes int() raise ValueError, which is no
\* JSONDecodeError and carries no index (at = 0).
Ok(v, next) == [ok |-> TRUE, v |-> v, next |-> next]
Err(msg, at) == [ok |-> FALSE, msg |-> msg, at |-> at]
TooManyDigits(n) == [ok |-> FALSE, msg |-> ExceedsLimit(n), at |-> 0]

\* The first index from k on that holds no JSON whitespace.
SkipWs(s, k) == FirstOutside(s, k, JsonWhitespace)

\* The first index from k on that holds no digit.
DigitsFrom(s, k) == FirstOutside(s, k, AsciiDigits)

\* s[k:k+len(lit)] == lit
MatchAt(s, k, lit) == k + Len(lit) - 1 <= Len(s) /\ SubSeq(s, k, k + Len(lit) - 1) = lit

\* NUMBER_RE, (-?(?:0|[1-9]\d*))(\.\d+)?([eE][-+]?\d+)?: the index after the
\* integer whose digits start at k (0 without a digit), after the fraction
\* that may follow at k, and after the exponent that may follow at k.
IntegerEnd(s, k) ==
  IF k > Len(s) \/ ~IsDigit(s[k]) THEN 0
  ELSE IF s[k] = "0" THEN k + 1
  ELSE DigitsFrom(s, k)

FractionEnd(s, k) ==
  IF k + 1 <= Len(s) /\ s[k] = "." /\ IsDigit(s[k + 1]) THEN DigitsFrom(s, k + 1) ELSE k

ExponentDigitsAt(s, k) == IF k + 1 <= Len(s) /\ s[k + 1] \in {"+", "-"} THEN k + 2 ELSE k + 1

ExponentEnd(s, k) ==
  IF k <= Len(s) /\ s[k] \in {"e", "E"}
       /\ DigitsFrom(s, ExponentDigitsAt(s, k)) > ExponentDigitsAt(s, k)
  THEN DigitsFrom(s, ExponentDigitsAt(s, k))
  ELSE k

\* The number whose digits start at d, integer to a - 1, fraction to b - 1,
\* exponent to c - 1: an int without fraction and exponent, else a float.
NumberValue(s, neg, d, a, b, c) ==
  IF c = a /\ a - d > 4300 THEN TooManyDigits(a - d)
  ELSE IF c = a THEN Ok(IntFromDigits(neg, DropLeadingZeros(SubSeq(s, d, a - 1))), c)
  ELSE Ok(FloatOfDecimal(neg, SubSeq(s, d, a - 1),
                         IF b > a THEN SubSeq(s, a + 1, b - 1) ELSE <<>>,
                         IF c > b THEN ExponentValue(SubSeq(s, b + 1, c - 1)) ELSE 0), c)

NumberAfterFraction(s, neg, d, a, b) == NumberValue(s, neg, d, a, b, ExponentEnd(s, b))

NumberAfterInteger(s, k, d, a) ==
  IF a = 0 THEN Err(ExpectingValue, k)
  ELSE NumberAfterFraction(s, s[k] = "-", d, a, FractionEnd(s, a))

NumberFrom(s, k, d) == NumberAfterInteger(s, k, d, IntegerEnd(s, d))

ParseNumber(s, k) == NumberFrom(s, k, IF s[k] = "-" THEN k + 1 ELSE k)

IsHex(s) == \A k \in 1..Len(s) : HexVal(s[k]) >= 0

HexNumber(s) ==
  HexVal(s[1]) * 4096 + HexVal(s[2]) * 256 + HexVal(s[3]) * 16 + HexVal(s[4])

\* A \uXXXX escape with a character after it starts at k.
UnicodeEscapeAt(s, k) ==
  k + 6 <= Len(s) /\ s[k] = "\\" /\ s[k + 1] = "u" /\ IsHex(SubSeq(s, k + 2, k + 5))

\* The character of the escape \c
Unescaped(c) ==
  IF c = "b" THEN Chr(8)
  ELSE IF c = "f" THEN "\f"
  ELSE IF c = "n" THEN "\n"
  ELSE IF c = "r" THEN "\r"
  ELSE IF c = "t" THEN "\t"
  ELSE c

RECURSIVE ScanString(_, _, _, _)

\* The characters that end a run of plain characters in a string.
StringSpecials == {"\"", "\\"} \cup ControlCharacters

\* The escape \uXXXX at k gave the code; a high surrogate joins the low one
\* of an escape that follows it to the character above U+FFFF they encode.
AfterUnicode(s, begin, k, acc, code) ==
  IF code >= 55296 /\ code <= 56319 /\ UnicodeEscapeAt(s, k + 6)
       /\ HexNumber(SubSeq(s, k + 8, k + 11)) >= 56320
       /\ HexNumber(SubSeq(s, k + 8, k + 11)) <= 57343
  THEN ScanString(s, begin, k + 12,
                  Append(acc, Chr(65536 + (code - 55296) * 1024
                                    + HexNumber(SubSeq(s, k + 8, k + 11)) - 56320)))
  ELSE ScanString(s, begin, k + 6, Append(acc, Chr(code)))

ScanEscape(s, begin, k, acc) ==
  IF k + 1 > Len(s) THEN Err(UnterminatedString, begin)
  ELSE IF s[k + 1] = "u"
    THEN IF UnicodeEscapeAt(s, k)
         THEN AfterUnicode(s, begin, k, acc, HexNumber(SubSeq(s, k + 2, k + 5)))
         ELSE Err(InvalidUnicodeEscape, k + 1)
  ELSE IF s[k + 1] \in {"\"", "\\", "/", "b", "f", "n", "r", "t"}
    THEN ScanString(s, begin, k + 2, Append(acc, Unescaped(s[k + 1])))
  ELSE Err(InvalidEscape, k)

\* The string that opens at begin, read from k on with acc read so far: the
\* plain characters up to the next quote, backslash or control character,
\* then that character.
ScanSpecial(s, begin, k, acc) ==
  IF k > Len(s) THEN Err(UnterminatedString, begin)
  ELSE IF s[k] = "\"" THEN Ok(PyText(acc), k + 1)
  ELSE IF s[k] = "\\" THEN ScanEscape(s, begin, k, acc)
  ELSE Err(InvalidControl, k)

ScanRun(s, begin, k, j, acc) == ScanSpecial(s, begin, j, acc \o SubSeq(s, k, j - 1))

ScanString(s, begin, k, acc) == ScanRun(s, begin, k, FirstInside(s, k, StringSpecials), acc)

RECURSIVE ParseValue(_, _), ParseItems(_, _, _), ParseMembers(_, _, _)

\* After an item of an array: "]" ends it, "," leads to the next item.
ItemSeparator(s, k, acc) ==
  IF k <= Len(s) /\ s[k] = "]" THEN Ok(PyList(acc), k + 1)
  ELSE IF k > Len(s) \/ s[k] # "," THEN Err(ExpectingComma, k)
  ELSE ParseItems(s, SkipWs(s, k + 1), acc)

AfterItem(s, r, acc) == IF ~r.ok THEN r ELSE ItemSeparator(s, SkipWs(s, r.next), Append(acc, r.v))

ParseItems(s, k, acc) == AfterItem(s, ParseValue(s, k), acc)

\* After a member of an object: "}" ends it, "," leads to the next member.
MemberSeparator(s, k, acc) ==
  IF k <= Len(s) /\ s[k] = "}" THEN Ok(PyDict(acc), k + 1)
  ELSE IF k > Len(s) \/ s[k] # "," THEN Err(ExpectingComma, k)
  ELSE ParseMembers(s, SkipWs(s, k + 1), acc)

AfterMember(s, r, key, acc) ==
  IF ~r.ok THEN r ELSE MemberSeparator(s, SkipWs(s, r.next), DictSet(acc, key, r.v))

MemberValue(s, k, key, acc) ==
  IF k > Len(s) \/ s[k] # ":" THEN Err(ExpectingColon, k)
  ELSE AfterMember(s, ParseValue(s, SkipWs(s, k + 1)), key, acc)

AfterName(s, r, acc) == IF ~r.ok THEN r ELSE MemberValue(s, SkipWs(s, r.next), r.v.s, acc)

ParseMembers(s, k, acc) ==
  IF k > Len(s) \/ s[k] # "\"" THEN Err(ExpectingName, k)
  ELSE AfterName(s, ScanString(s, k, k + 1, <<>>), acc)

\* The JSON value that starts at k.
ParseValue(s, k) ==
  IF k > Len(s) THEN Err(ExpectingValue, k)
  ELSE IF s[k] = "\"" THEN ScanString(s, k, k + 1, <<>>)
  ELSE IF s[k] = "{"
    THEN IF SkipWs(s, k + 1) <= Len(s) /\ s[SkipWs(s, k + 1)] = "}"
         THEN Ok(PyDict(<<>>), SkipWs(s, k + 1) + 1)
         ELSE ParseMembers(s, SkipWs(s, k + 1), <<>>)
  ELSE IF s[k] = "["
    THEN IF SkipWs(s, k + 1) <= Len(s) /\ s[SkipWs(s, k + 1)] = "]"
         THEN Ok(PyList(<<>>), SkipWs(s, k + 1) + 1)
         ELSE ParseItems(s, SkipWs(s, k + 1), <<>>)
  ELSE IF s[k] \in AsciiDigits
          \/ (s[k] = "-" /\ ~MatchAt(s, k, <<"-","I","n","f","i","n","i","t","y">>))
    THEN ParseNumber(s, k)
  ELSE IF MatchAt(s, k, <<"n","u","l","l">>) THEN Ok(PyNone, k + 4)
  ELSE IF MatchAt(s, k, <<"t","r","u","e">>) THEN Ok(PyBool(TRUE), k + 4)
  ELSE IF MatchAt(s, k, <<"f","a","l","s","e">>) THEN Ok(PyBool(FALSE), k + 5)
  ELSE IF MatchAt(s, k, <<"N","a","N">>) THEN Ok(FloatNan, k + 3)
  ELSE IF MatchAt(s, k, <<"I","n","f","i","n","i","t","y">>)
    THEN Ok(FloatInf(FALSE), k + 8)
  ELSE IF MatchAt(s, k, <<"-","I","n","f","i","n","i","t","y">>)
    THEN Ok(FloatInf(TRUE), k + 9)
  ELSE Err(ExpectingValue, k)

\* JSONDecoder.decode: one value, whitespace around it, nothing after it.
\* json.loads refuses a text that starts with U+FEFF before it decodes.
DecodeEnd(s, r) ==
  IF ~r.ok THEN r
  ELSE IF SkipWs(s, r.next) <= Len(s) THEN Err(ExtraData, SkipWs(s, r.next))
  ELSE r

JsonDecode(s) ==
  IF s # <<>> /\ s[1] = Chr(65279) THEN Err(UnexpectedBOM, 1)
  ELSE DecodeEnd(s, ParseValue(s, SkipWs(s, 1)))

\* str(e) of a JSONDecodeError: the message with line, column and index.
NewlinesBefore(s, pos) == { k \in 1..pos : s[k] = "\n" }

ColumnOf(pos, newlines) ==
  IF newlines = {} THEN pos + 1
  ELSE pos + 1 - (CHOOSE k \in newlines : \A h \in newlines : h <= k)

ErrorAt(msg, pos, newlines) ==
  msg \o <<":"," ","l","i","n","e"," ">> \o IntToStr(Cardinality(newlines) + 1)
      \o <<" ","c","o","l","u","m","n"," ">> \o IntToStr(ColumnOf(pos, newlines))
      \o <<" ","(","c","h","a","r"," ">> \o IntToStr(pos) \o <<")">>

DecodeResult(s, r) ==
  IF r.ok THEN Return(r.v)
  ELSE IF r.at = 0 THEN Raise("ValueError", r.msg)
  ELSE Raise("JSONDecodeError", ErrorAt(r.msg, r.at - 1, NewlinesBefore(s, r.at - 1)))

\* json.loads(v): TypeError for a value that is no str, JSONDecodeError for a
\* text that is no JSON, ValueError for an integer of too many digits.
json_loads(v) ==
  IF v.t # "str" THEN Raise("TypeError", <<"t","h","e"," ","J","S","O","N"," ","o","b","j","e","c","t"," ","m","u","s","t"," ","b","e"," ","s","t","r",","," ","b","y","t","e","s"," ","o","r"," ","b","y","t","e","a","r","r","a","y",","," ","n","o","t"," ">> \o TypeName(v))
  ELSE DecodeResult(v.s, JsonDecode(v.s))


\* A text as a JSON string: json.dumps(s) for a text of printable ASCII
\* characters, line feeds, carriage returns and tabs.
JsonEscapedChar(c) ==
  IF c \in {"\"", "\\"} THEN <<"\\", c>>
  ELSE IF c = "\n" THEN <<"\\", "n">>
  ELSE IF c = "\r" THEN <<"\\", "r">>
  ELSE IF c = "\t" THEN <<"\\", "t">>
  ELSE <<c>>

JsonEscaped(s) == Concat([k \in 1..Len(s) |-> JsonEscapedChar(s[k])], 1, Len(s))

JsonText(s) == <<"\"">> \o JsonEscaped(s) \o <<"\"">>

----------------------------------------------------------------------------
(* difflib.get_close_matches as parsing.fuzzy_match_invalid_personas uses it *)

\* threshold=60 of fuzzy_match_invalid_personas; cutoff = threshold / 100.0
threshold == 60

\* x > y for Python str: decided by the code points at the first position
\* where they differ, differ being the set of these positions within the
\* shorter length.
StrGreaterAt(x, y, differ) ==
  IF differ = {} THEN Len(x) > Len(y)
  ELSE Ord(x[Least(differ)]) > Ord(y[Least(differ)])

StrGreater(x, y) ==
  StrGreaterAt(x, y, { k \in 1..Min(Len(x), Len(y)) : x[k] # y[k] })

\* SequenceMatcher.__chain_b with autojunk: in a b of 200 characters or more
\* the characters that occur more than len(b) // 100 + 1 times are popular
\* and are left out of b2j.
Popular(b) ==
  IF Len(b) < 200 THEN {}
  ELSE { c \in { b[k] : k \in 1..Len(b) } :
           Cardinality({ k \in 1..Len(b) : b[k] = c }) > Len(b) \div 100 + 1 }

\* Length of a run of n compared positions, differ being those that differ.
RunLen(n, differ) == IF differ = {} THEN Max(n, 0) ELSE Least(differ) - 1

\* Length of the common run of a from 0-based index ia and b from jb, within
\* a[:ahi] and b[:bhi], over characters of b that are not in skipped.
CommonLen(a, b, ia, jb, ahi, bhi, skipped) ==
  RunLen(Min(ahi - ia, bhi - jb),
         { k \in 1..Min(ahi - ia, bhi - jb) :
             a[ia + k] # b[jb + k] \/ b[jb + k] \in skipped })

\* Length of the common run of a before 0-based index ia and b before jb,
\* within a[alo:] and b[blo:].
CommonLenBefore(a, b, ia, jb, alo, blo) ==
  RunLen(Min(ia - alo, jb - blo),
         { k \in 1..Min(ia - alo, jb - blo) : a[ia - k + 1] # b[jb - k + 1] })

\* The longest block a[i:i+k] = b[j:j+k] of characters in b2j; among the
\* longest the one starting earliest in a, and among those the one starting
\* earliest in b; (alo, blo, 0) without one.
BetterBlock(x, y) ==
  \/ x.k > y.k
  \/ x.k = y.k /\ x.i < y.i
  \/ x.k = y.k /\ x.i = y.i /\ x.j < y.j

BestBlock(blocks, alo, blo) ==
  IF blocks = {} THEN [i |-> alo, j |-> blo, k |-> 0]
  ELSE CHOOSE x \in blocks : \A y \in blocks \ {x} : BetterBlock(x, y)

\* The block m extended by the equal characters before it (left of them) and
\* after it (right of them), popular or not: no character is junk.
Extended(m, left, right) == [i |-> m.i - left, j |-> m.j - left, k |-> m.k + left + right]

ExtendedBlock(a, b, alo, ahi, blo, bhi, m) ==
  Extended(m, CommonLenBefore(a, b, m.i, m.j, alo, blo),
           CommonLen(a, b, m.i + m.k, m.j + m.k, ahi, bhi, {}))

LongestIn(a, b, alo, ahi, blo, bhi, popular) ==
  ExtendedBlock(a, b, alo, ahi, blo, bhi,
    BestBlock({ x \in { [i |-> ia, j |-> jb,
                         k |-> CommonLen(a, b, ia, jb, ahi, bhi, popular)] :
                        ia \in alo..(ahi - 1), jb \in blo..(bhi - 1) } : x.k > 0 },
              alo, blo))

\* SequenceMatcher.find_longest_match(alo, ahi, blo, bhi) for seq1 = a and
\* seq2 = b, without junk and with autojunk.
find_longest_match(a, b, alo, ahi, blo, bhi) ==
  LongestIn(a, b, alo, ahi, blo, bhi, Popular(b))

\* Sum of the sizes of SequenceMatcher.get_matching_blocks(): the longest
\* match m of a[alo:ahi] and b[blo:bhi], then the pieces left and right of it.
RECURSIVE matches(_, _, _, _, _, _)

MatchesAround(a, b, alo, ahi, blo, bhi, m) ==
  IF m.k = 0 THEN 0
  ELSE m.k
       + (IF alo < m.i /\ blo < m.j THEN matches(a, b, alo, m.i, blo, m.j) ELSE 0)
       + (IF m.i + m.k < ahi /\ m.j + m.k < bhi
          THEN matches(a, b, m.i + m.k, ahi, m.j + m.k, bhi) ELSE 0)

matches(a, b, alo, ahi, blo, bhi) ==
  MatchesAround(a, b, alo, ahi, blo, bhi, find_longest_match(a, b, alo, ahi, blo, bhi))

\* SequenceMatcher.ratio() = 2.0 * matches / (len(a) + len(b)), kept as the
\* pair <<2 * matches, len(a) + len(b)>>; a is the possibility, b the word.
ratio(a, b) == <<2 * matches(a, b, 0, Len(a), 0, Len(b)), Len(a) + Len(b)>>

\* ratio >= cutoff, with cutoff = threshold / 100.0
AtLeastCutoff(r) == IF r[2] = 0 THEN TRUE ELSE r[1] * 100 >= threshold * r[2]

\* (score, x) > (score, y) for two scored possibilities
AboveScored(x, y) ==
  \/ x.score[1] * y.score[2] > y.score[1] * x.score[2]
  \/ x.score[1] * y.score[2] = y.score[1] * x.score[2] /\ StrGreater(x.text, y.text)

\* heapq.nlargest(1, result): the largest (score, text), as a list of texts.
Largest(result) ==
  IF result = {} THEN <<>>
  ELSE <<(CHOOSE r \in result : \A o \in result \ {r} : AboveScored(r, o)).text>>

\* get_close_matches(word, list(VALID_PERSONAS), n=1, cutoff): the possibility
\* with the largest (ratio, text) among those reaching the cutoff, as a
\* sequence of at most one match.  real_quick_ratio and quick_ratio are upper
\* bounds of ratio, so the three tests of difflib reduce to the last one.
get_close_matches(word) ==
  Largest({ r \in { [score |-> ratio(x, word), text |-> x] : x \in VALID_PERSONAS } :
              AtLeastCutoff(r.score) })

----------------------------------------------------------------------------
(* llm_client.py: ask_chat_session and extract_retry_after_seconds *)

\* How finely random.uniform(0, 1.0) is sampled: JitterSteps values from 0
\* upwards and the largest value there is.
JitterSteps == 2

\* A time is a float, as in the program.  A whole number of seconds:
Seconds(n) == FloatOfNat(n)

\* Sample j of random.uniform(0, 1.0), which is 0 + 1.0 * random.random():
\* random() returns k * 2^-53 for a k in 0..2^53 - 1, so the values lie in
\* [0, 1) and 1.0 is none of them.  The samples below JitterSteps are
\* floor(j * 1024 / JitterSteps) / 1024, the last one is 1 - 2^-53.
Jitter(j) ==
  IF j >= JitterSteps THEN FloatOfBits(FALSE, BigSub(BigPow(<<2>>, 53), <<1>>), -53)
  ELSE FloatOfBits(FALSE, BigOfInt((j * 1024) \div JitterSteps), -10)

TryAgainIn == <<"t","r","y"," ","a","g","a","i","n"," ","i","n"," ">>

\* The group of r"try again in ([0-9]+(?:\.[0-9]+)?)s" after the digits of
\* rest: the n digits when "s" follows, the digits, the point and f more
\* digits when ".", f > 0 digits and "s" follow, else no match, <<>>.
GroupWithFraction(rest, n, f) ==
  IF f > 0 /\ Len(rest) > n + 1 + f /\ rest[n + 2 + f] = "s"
  THEN SubSeq(rest, 1, n + 1 + f) ELSE <<>>

GroupOf(rest, n) ==
  IF n = 0 \/ Len(rest) = n THEN <<>>
  ELSE IF rest[n + 1] = "s" THEN SubSeq(rest, 1, n)
  ELSE IF rest[n + 1] # "." THEN <<>>
  ELSE GroupWithFraction(rest, n, DigitRun(SubSeq(rest, n + 2, Len(rest))))

GroupAfter(rest) == GroupOf(rest, DigitRun(rest))

\* Group 1 of the match of the pattern starting at 0-based position k of
\* msg, or <<>> when the pattern does not match there.
RegexAt(msg, k) ==
  IF ~StartsWith(SubSeq(msg, k + 1, Len(msg)), TryAgainIn) THEN <<>>
  ELSE GroupAfter(SubSeq(msg, k + 1 + Len(TryAgainIn), Len(msg)))

\* Group 1 of the first match in msg, or <<>>.
FirstGroup(msg, hits) ==
  IF hits = {} THEN <<>> ELSE RegexAt(msg, CHOOSE k \in hits : \A h \in hits : k <= h)

re_search(msg) == FirstGroup(msg, { k \in 0..(Len(msg) - 1) : RegexAt(msg, k) # <<>> })

\* float(m.group(1)) if m else 0.0
GroupSeconds(group) == IF group = <<>> THEN FloatZero(FALSE) ELSE ParseFloat(group)

\* llm_client.extract_retry_after_seconds: the first match in msg, else 0.0.
extract_retry_after_seconds(msg) == GroupSeconds(re_search(msg))

\* create_chat_session: the message list of a new session.
create_chat_session(system_message) == << [role |-> "system", content |-> system_message] >>

KeyNotFound == <<"O","P","E","N","A","I","_","A","P","I","_","K","E","Y"," ","n","o","t"," ","f","o","u","n","d">>

\* What requests.post gives: a response with its status, its Retry-After
\* header (None without one) and the text of its body, or an exception of
\* requests with its text: a Timeout (kind "timeout") or another one (kind
\* "transport").  The reply to a chunk is a 200 held by the rows of its
\* content (rows) in place of the text.
HttpResponse(status_code, retry_after, text) ==
  [kind |-> "http", status |-> status_code, retry_after |-> retry_after, text |-> text]

\* The body of a chat completion with the JSON value content as its message
\* content, and the body of an error with its message.
ChoicesBody(content) == <<"{","\"","c","h","o","i","c","e","s","\"",":"," ","[","{","\"","i","n","d","e","x","\"",":"," ","0",","," ","\"","m","e","s","s","a","g","e","\"",":"," ","{","\"","r","o","l","e","\"",":"," ","\"","a","s","s","i","s","t","a","n","t","\"",","," ","\"","c","o","n","t","e","n","t","\"",":"," ">> \o content \o <<"}","}","]","}">>

ErrorBody(message) == <<"{","\"","e","r","r","o","r","\"",":"," ","{","\"","m","e","s","s","a","g","e","\"",":"," ">> \o JsonText(message) \o <<"}","}">>

TooManyRequests == <<"T","o","o"," ","m","a","n","y"," ","r","e","q","u","e","s","t","s">>

\* Responses of the endpoint that make ask_chat_session raise.
FailedResponses ==
  { HttpResponse(429, None, ErrorBody(TooManyRequests)),
    HttpResponse(429, <<"4","0">>, ErrorBody(TooManyRequests)),
    HttpResponse(429, <<Chr(28), "2", Chr(31)>>, ErrorBody(TooManyRequests)),
    HttpResponse(429, <<"2",".","5">>, ErrorBody(<<"R","a","t","e"," ","l","i","m","i","t"," ","r","e","a","c","h","e","d",","," ","t","r","y"," ","a","g","a","i","n"," ","i","n"," ","1",".","5","s">>)),
    HttpResponse(500, <<"4","0">>, ErrorBody(<<"s","e","r","v","e","r"," ","o","v","e","r","l","o","a","d","e","d">>)),
    [kind |-> "timeout", err |-> <<"r","e","a","d"," ","t","i","m","e","d"," ","o","u","t">>],
    [kind |-> "transport", err |-> <<"C","o","n","n","e","c","t","i","o","n"," ","r","e","s","e","t">>] }

\* Responses of the endpoint on which ask_chat_session raises an exception
\* of its own: a 200 whose body is no JSON, has no choices, an empty list of
\* choices, a null content, null for its choices, a list or a null message,
\* and an error body whose "error" is no object.
NotJson == HttpResponse(200, None, <<"<","h","t","m","l",">">>)

NoChoices == HttpResponse(200, None, <<"{","}">>)

BrokenResponses ==
  { NotJson,
    NoChoices,
    HttpResponse(200, None, <<"{","\"","c","h","o","i","c","e","s","\"",":"," ","[","]","}">>),
    HttpResponse(200, None, ChoicesBody(<<"n","u","l","l">>)),
    HttpResponse(200, None, <<"{","\"","c","h","o","i","c","e","s","\"",":"," ","n","u","l","l","}">>),
    HttpResponse(200, None, <<"[","]">>),
    HttpResponse(200, None, <<"{","\"","c","h","o","i","c","e","s","\"",":"," ","[","{","\"","m","e","s","s","a","g","e","\"",":"," ","n","u","l","l","}","]","}">>),
    HttpResponse(500, None, <<"{","\"","e","r","r","o","r","\"",":"," ","n","u","l","l","}">>) }

\* A request that times out, one that loses its connection, one that is
\* refused for the rate limit, and a server error whose message quotes a
\* request id.
TimedOut == [kind |-> "timeout", err |-> <<"r","e","a","d"," ","t","i","m","e","d"," ","o","u","t">>]

ConnectionReset == [kind |-> "transport", err |-> <<"C","o","n","n","e","c","t","i","o","n"," ","r","e","s","e","t">>]

RateLimited == HttpResponse(429, None, ErrorBody(TooManyRequests))

ServerErrorWithRequestId == HttpResponse(500, None, ErrorBody(<<"e","r","r","o","r"," ","i","n"," ","r","e","q","u","e","s","t"," ","r","e","q","_","7","4","2","9","1">>))

\* Lines 67-73: the hint built from the Retry-After header, empty without a
\* header and when float() raises.
HintOf(x) ==
  IF x = ValueError THEN <<>>
  ELSE <<" ","t","r","y"," ","a","g","a","i","n"," ","i","n"," ">> \o FormatRound0(x) \o <<"s">>

RetryAfterHint(ra) == IF ra = None \/ ra = <<>> THEN <<>> ELSE HintOf(ParseFloat(ra))

\* Line 63: r.json()["choices"][0]["message"]["content"].strip(), body being
\* what r.json() gives, json.loads of the text of the body.
MessageContent(body) ==
  Path(body, << PyText(<<"c","h","o","i","c","e","s">>), Zero, PyText(<<"m","e","s","s","a","g","e">>), PyText(<<"c","o","n","t","e","n","t">>) >>, 1)

Stripped(content) ==
  IF ~content.ok THEN content
  ELSE IF content.v.t = "str" THEN Return(Strip(content.v.s))
  ELSE NoAttribute(content.v, <<"s","t","r","i","p">>)

\* Lines 74-77: err is error.message of the decoded body as the f-string
\* writes it, the text of the body when r.json() raises ValueError (a
\* JSONDecodeError is one); any other exception propagates.
MessageText(message) == IF message.ok THEN Return(PyStrOf(message.v)) ELSE message

ErrorText(body, text) ==
  IF ~body.ok THEN Return(text)
  ELSE MessageText(ThenGet(Get(body.v, <<"e","r","r","o","r">>, PyDict(<<>>)), <<"m","e","s","s","a","g","e">>, PyNone))

\* Lines 78-80: the HTTPError of a status other than 200.
StatusError(status_code, hint, err) ==
  IF ~err.ok THEN err
  ELSE IF status_code = 429
    THEN Raise("HTTPError", <<"4","2","9"," ","r","a","t","e","_","l","i","m","i","t","_","e","x","c","e","e","d","e","d",":">> \o hint \o <<" ","|"," ">> \o err.v)
  ELSE Raise("HTTPError", <<"H","T","T","P"," ">> \o IntToStr(status_code) \o <<":"," ">> \o err.v)

\* Lines 52-82 for what requests.post gave: the stripped reply, or the
\* exception that leaves ask_chat_session.  A requests Timeout becomes
\* TimeoutError; every other exception propagates as it is.  body is what
\* r.json() gives.
Answered(r, body) ==
  IF r.status # 200
  THEN StatusError(r.status, RetryAfterHint(r.retry_after), ErrorText(body, r.text))
  ELSE Stripped(MessageContent(body))

Answer(r) ==
  IF r.kind = "timeout" THEN Raise("TimeoutError", <<"r","e","q","u","e","s","t"," ","t","i","m","e","o","u","t",":"," ">> \o r.err)
  ELSE IF r.kind = "transport" THEN Raise("ConnectionError", r.err)
  ELSE Answered(r, json_loads(PyText(r.text)))

\* The payloads sent and the reply texts of the endpoint in the runs of one
\* session.
Payloads == { <<"1",",","C","T","O">>, <<"2",",","C","F","O">> }
ReplyTexts == { <<"1",",","C","T","O",",","F","o","o",",","9","0">>, <<" ","1",",","C","T","O",",","F","o","o",",","9","0","\n">>, <<>> }

Replied(txt) == HttpResponse(200, None, ChoicesBody(JsonText(txt)))

\* The answers to the responses of the checked runs, computed once.
CheckedResponses ==
  FailedResponses \cup BrokenResponses \cup {ServerErrorWithRequestId}
    \cup { Replied(txt) : txt \in ReplyTexts }

Answers == { <<r, Answer(r)>> : r \in CheckedResponses }

\* The reply to a chunk is held by the rows of its content: the content
\* itself is what ask_chat_session returns.
AnswerOf(r) == IF "rows" \in DOMAIN r THEN Return(r.rows) ELSE Lookup(Answers, r)

\* llm_client.ask_chat_session on a session's messages, for a user message,
\* the OPENAI_API_KEY of the environment and what requests.post gives: what
\* it returns or raises, and the messages of the session afterwards.
\* Without a key RuntimeError is raised before anything is appended; the
\* user message is appended before the request (line 51); a reply is
\* appended and returned (lines 64-65).
Sent(session, user_message) == Append(session, [role |-> "user", content |-> user_message])

Outcome(sent, out) ==
  IF out.ok
  THEN [ok |-> TRUE, txt |-> out.v,
        messages |-> Append(sent, [role |-> "assistant", content |-> out.v])]
  ELSE [ok |-> FALSE, exc |-> out.exc, msg |-> out.msg, messages |-> sent]

ask_chat_session(session, user_message, key, r) ==
  IF key = None \/ key = <<>>
  THEN [ok |-> FALSE, exc |-> "RuntimeError", msg |-> KeyNotFound, messages |-> session]
  ELSE Outcome(Sent(session, user_message), AnswerOf(r))

\* The exceptions call_with_retries catches and retries (line 81): r.json()
\* raises the JSONDecodeError of requests, a RequestException.
Retried == {"TimeoutError", "HTTPError", "ConnectionError", "JSONDecodeError"}

\* The exceptions of a call that neither call_with_retries nor main catches.
Uncaught == {"KeyError", "IndexError", "AttributeError", "TypeError", "ValueError"}

\* The calls of a session that raised after their user message was appended:
\* the user messages without a reply.
FailedCalls(session) ==
  Cardinality({ k \in 1..Len(session) : session[k].role = "user" })
    - Cardinality({ k \in 1..Len(session) : session[k].role = "assistant" })

----------------------------------------------------------------------------
(* parsing.py and the table operations of the two main functions *)

\* pd.read_csv turns an empty field and the default NA markers into NaN,
\* also under dtype=str.
NaTexts ==
  { <<>>, <<"#","N","/","A">>, <<"#","N","/","A"," ","N","/","A">>, <<"#","N","A">>,
    <<"-","1",".","#","I","N","D">>, <<"-","1",".","#","Q","N","A","N">>,
    <<"-","N","a","N">>, <<"-","n","a","n">>, <<"1",".","#","I","N","D">>,
    <<"1",".","#","Q","N","A","N">>, <<"<","N","A",">">>, <<"N","/","A">>, <<"N","A">>,
    <<"N","U","L","L">>, <<"N","a","N">>, <<"N","o","n","e">>, <<"n","/","a">>,
    <<"n","a","n">>, <<"n","u","l","l">> }

CsvCell(field) == IF field \in NaTexts THEN NaN ELSE field

\* "\n".join(all_results) read by parse_llm_csv: the rows of all replies in
\* order, each with its Prospect Id and its Persona cell.
RECURSIVE parse_llm_csv(_)
parse_llm_csv(results) ==
  IF results = <<>> THEN <<>>
  ELSE [k \in 1..Len(Head(results)) |->
          [id |-> Head(results)[k].id, persona |-> CsvCell(Head(results)[k].persona)]]
       \o parse_llm_csv(Tail(results))

\* DataFrame.drop_duplicates(subset=["Prospect Id"], keep="first").
\* The faulty variant keeps every row.
drop_duplicates_none(frame) == frame

\* A faulty variant that keeps the last row of every Prospect Id.
drop_duplicates_last(frame) ==
  LET keep(k) == \A h \in (k + 1)..Len(frame) : frame[h].id # frame[k].id
      F[k \in 0..Len(frame)] ==
        IF k = 0 THEN <<>>
        ELSE IF keep(k) THEN Append(F[k - 1], frame[k]) ELSE F[k - 1]
  IN F[Len(frame)]

drop_duplicates(frame) ==
  LET keep(k) == \A h \in 1..(k - 1) : frame[h].id # frame[k].id
      F[k \in 0..Len(frame)] ==
        IF k = 0 THEN <<>>
        ELSE IF keep(k) THEN Append(F[k - 1], frame[k]) ELSE F[k - 1]
  IN F[Len(frame)]

\* ok_ids of a pass (streaming_enricher.main, lines 202-210): the ids whose
\* first row in the cumulative replies carries a member of VALID_PERSONAS.
OkIds(results) ==
  LET formatted == drop_duplicates(parse_llm_csv(results)) IN
  { formatted[k].id : k \in { h \in 1..Len(formatted) :
                                formatted[h].persona \in VALID_PERSONAS } }

\* df.merge(formatted, on="Prospect Id", how="left"): for every row of df, in
\* order, one row per matching row of formatted, or one row with a NaN Persona.
RowsOrNaN(id, hits) == IF hits = <<>> THEN << [id |-> id, persona |-> NaN] >> ELSE hits

merge_left(table, formatted) ==
  LET rowsOf(id) == RowsOrNaN(id, SelectSeq(formatted, LAMBDA r : r.id = id))
      F[k \in 0..Len(table)] == IF k = 0 THEN <<>> ELSE F[k - 1] \o rowsOf(table[k])
  IN F[Len(table)]

\* The words given to get_close_matches in the checked runs.
CheckedWords ==
  { <<"n","a","n">>, <<"F","o","o">>, <<"N","o","n","e">>,
    <<"E","c","o","n","o","m","i","c"," "," ","B","u","y","e","r">> }

\* Their matches, computed once: pairs <<word, get_close_matches(word)>>.
CloseMatchOf == { <<w, get_close_matches(w)>> : w \in CheckedWords }

CloseMatch(word) ==
  IF word \in CheckedWords THEN Lookup(CloseMatchOf, word) ELSE get_close_matches(word)

\* Lines 162-184 of fuzzy_match_invalid_personas for one row: the row with
\* the matches found for its stripped Persona (none for an empty one).
WithMatches(r) ==
  [r |-> r,
   m |-> IF Strip(PyStr(r.persona)) = <<>> THEN <<>>
         ELSE CloseMatch(Strip(PyStr(r.persona)))]

\* Lines 176-197: corrected rows and still skipped rows.  The faulty variant
\* leaves the Skip Reason of a corrected row in place.
Rows(scored) == [k \in 1..Len(scored) |-> scored[k].r]

Unmatched(scored) == Rows(SelectSeq(scored, LAMBDA t : t.m = <<>>))

Corrected_keepreason(matched) ==
  [k \in 1..Len(matched) |-> [matched[k].r EXCEPT !.persona = matched[k].m[1]]]

Corrected(matched) ==
  [k \in 1..Len(matched) |->
     [matched[k].r EXCEPT !.persona = matched[k].m[1], !.reason = None]]

Correct_keepreason(other, scored) ==
  << Corrected_keepreason(SelectSeq(scored, LAMBDA t : t.m # <<>>)),
     other \o Unmatched(scored) >>

Correct(other, scored) ==
  << Corrected(SelectSeq(scored, LAMBDA t : t.m # <<>>)), other \o Unmatched(scored) >>

\* Lines 149-157: the rows whose reason starts with "Invalid persona:".
IsInvalid(r) == StartsWith(PyStr(r.reason), InvalidPersonaColon)

\* parsing.fuzzy_match_invalid_personas: <<corrected rows, still skipped rows>>.
FuzzySplit(skipped, invalid) ==
  IF skipped = <<>> \/ invalid = <<>> THEN << <<>>, skipped >>
  ELSE Correct(SelectSeq(skipped, LAMBDA r : ~IsInvalid(r)),
               [k \in 1..Len(invalid) |-> WithMatches(invalid[k])])

fuzzy_match_invalid_personas(skipped) == FuzzySplit(skipped, SelectSeq(skipped, IsInvalid))

\* Lines 233-247 of streaming_enricher.main: the corrected rows join the
\* accepted table, which is de-duplicated and filtered by the vocabulary.
StreamingResult(final0, skipped0, fuzzy) ==
  [final |-> SelectSeq(drop_duplicates(IF skipped0 # <<>> /\ fuzzy[1] # <<>>
                                       THEN final0 \o fuzzy[1] ELSE final0),
                       LAMBDA r : r.persona \in VALID_PERSONAS),
   skipped |-> IF skipped0 # <<>> /\ fuzzy[1] # <<>> THEN fuzzy[2] ELSE skipped0]

\* Lines 229-231: the split by Skip Reason.
StreamingParts(final0, skipped0) ==
  StreamingResult(final0, skipped0, fuzzy_match_invalid_personas(skipped0))

StreamingSplit(merged) ==
  StreamingParts(SelectSeq(merged, LAMBDA r : r.reason = None),
                 SelectSeq(merged, LAMBDA r : r.reason # None))

\* Lines 226-227: Skip Reason of every merged row.
WithSkipReason(joined) ==
  [k \in 1..Len(joined) |->
     [id |-> joined[k].id, persona |-> joined[k].persona,
      reason |-> determine_skip_reason(joined[k].persona)]]

\* Lines 221-247 of streaming_enricher.main: final parse, merge, skip reasons,
\* fuzzy correction, de-duplication and the vocabulary filter of the accepted
\* table.  The result is [final |-> accepted rows, skipped |-> skipped rows].
StreamingTables(table, results) ==
  StreamingSplit(WithSkipReason(merge_left(table, parse_llm_csv(results))))

----------------------------------------------------------------------------
(* parsing.parse_batch_output_jsonl and batch_enricher.main's post-processing *)

RECURSIVE SplitFrom(_, _)

\* The line of s from k to the boundary at j, and the lines after it.
SplitAtBreak(s, k, j) ==
  <<SubSeq(s, k, j - 1)>>
    \o SplitFrom(s, IF j < Len(s) /\ s[j] = "\r" /\ s[j + 1] = "\n" THEN j + 2 ELSE j + 1)

\* The lines of s from index k on.
SplitFrom(s, k) == IF k > Len(s) THEN <<>> ELSE SplitAtBreak(s, k, FirstInside(s, k, LineBreaks))

\* s.splitlines()
splitlines(s) == SplitFrom(s, 1)

MalformedSuccessBody == <<"M","a","l","f","o","r","m","e","d"," ","s","u","c","c","e","s","s"," ","b","o","d","y",":"," ">>

HTTPSpace == <<"H","T","T","P"," ">>

\* x or default
Or(x, default) == IF Truthy(x) THEN x ELSE default

\* An exception leaves the function: no map is returned.
Leaves(acc, r) == [acc EXCEPT !.exc = r.exc, !.msg = r.msg]

\* Lines 115-119: body.get("error", {}).get("message"), None when a get
\* raises AttributeError.
ErrorMessageOf(error) == IF error.t = "dict" THEN DictGet(error.pairs, <<"m","e","s","s","a","g","e">>, PyNone) ELSE PyNone

ErrorMessage(body) ==
  IF body.t = "dict" THEN ErrorMessageOf(DictGet(body.pairs, <<"e","r","r","o","r">>, PyDict(<<>>))) ELSE PyNone

\* Lines 114-120: every status but 200.
FailureEntry(acc, cid, status, body) ==
  [acc EXCEPT !.errors =
     DictSet(@, cid, HTTPSpace \o IntText(status) \o <<":"," ">>
                       \o PyStrOf(Or(ErrorMessage(body), body)))]

\* Lines 108-113: resp["body"]["choices"][0]["message"]["content"], or the
\* KeyError, TypeError or IndexError of the first subscription that fails.
ContentOf(resp) ==
  Path(Return(resp), << PyText(<<"b","o","d","y">>), PyText(<<"c","h","o","i","c","e","s">>), Zero,
                        PyText(<<"m","e","s","s","a","g","e">>), PyText(<<"c","o","n","t","e","n","t">>) >>, 1)

SuccessEntry(acc, cid, content) ==
  IF content.ok THEN [acc EXCEPT !.out = DictSet(@, cid, content.v)]
  ELSE [acc EXCEPT !.errors = DictSet(@, cid, MalformedSuccessBody \o content.msg)]

\* Lines 106-120 for a status that int() gave.
LineEntry(acc, cid, resp, status) ==
  IF ~status.ok THEN Leaves(acc, status)
  ELSE IF ~status.v.neg /\ status.v.digits = <<"2","0","0">>
    THEN SuccessEntry(acc, cid, ContentOf(resp))
  ELSE FailureEntry(acc, cid, status.v, Or(DictGet(resp.pairs, <<"b","o","d","y">>, PyNone), PyDict(<<>>)))

\* Lines 104-105: resp = obj.get("response", {}) and its status.
LineResponse(acc, cid, resp) ==
  IF resp.t # "dict" THEN Leaves(acc, Get(resp, <<"s","t","a","t","u","s","_","c","o","d","e">>, Zero))
  ELSE LineEntry(acc, cid, resp, IntOf(Or(DictGet(resp.pairs, <<"s","t","a","t","u","s","_","c","o","d","e">>, Zero), Zero)))

\* Lines 102-104 for the value json.loads gave.
LineObject(acc, obj) ==
  IF ~obj.ok THEN Leaves(acc, obj)
  ELSE IF obj.v.t # "dict" THEN Leaves(acc, Get(obj.v, <<"c","u","s","t","o","m","_","i","d">>, PyText(<<>>)))
  ELSE LineResponse(acc, PyStrOf(DictGet(obj.v.pairs, <<"c","u","s","t","o","m","_","i","d">>, PyText(<<>>))),
                    DictGet(obj.v.pairs, <<"r","e","s","p","o","n","s","e">>, PyDict(<<>>)))

\* Lines 98-120: one line of the file; a blank line is passed over.
ParseLine(acc, line) ==
  IF acc.exc # "none" \/ Strip(line) = <<>> THEN acc
  ELSE LineObject(acc, json_loads(PyText(line)))

RECURSIVE ParseLines(_, _, _)
ParseLines(acc, lines, k) ==
  IF k > Len(lines) THEN acc ELSE ParseLines(ParseLine(acc, lines[k]), lines, k + 1)

\* parse_batch_output_jsonl over the text of the output file.  A line with
\* status 200 whose body has choices[0].message.content goes to the results
\* map under str(custom_id); a 200 without it and every other status go to
\* the errors map, a line without response as status 0.  A line that is no
\* JSON (JSONDecodeError), a line or a response that is no object
\* (AttributeError) and a status int() refuses (ValueError, TypeError,
\* OverflowError) raise: the exception leaves the function and no map is
\* returned.
parse_batch_output_jsonl(jsonl_str) ==
  ParseLines([out |-> <<>>, errors |-> <<>>, exc |-> "none", msg |-> <<>>],
             splitlines(jsonl_str), 1)

InvalidJSONColon == <<"I","n","v","a","l","i","d"," ","J","S","O","N",":">>

\* content[:160] in the handler of line 126: the start of a str, of the repr
\* of a list; any other content has no slice and raises TypeError.
First160(content) ==
  IF content.t = "str" THEN Return(SubSeq(content.s, 1, Min(160, Len(content.s))))
  ELSE IF content.t = "list"
    THEN Return(PyRepr(PyList(SubSeq(content.items, 1, Min(160, Len(content.items))))))
  ELSE IF content.t = "dict" THEN Raise("TypeError", <<"u","n","h","a","s","h","a","b","l","e"," ","t","y","p","e",":"," ","'","s","l","i","c","e","'">>)
  ELSE NotSubscriptable(content)

\* Lines 125-127: the handler of JSONDecodeError, TypeError and ValueError.
InvalidJSONEntry(acc, pid, e, head) ==
  IF ~head.ok THEN [acc EXCEPT !.exc = head.exc]
  ELSE [acc EXCEPT !.errors =
          DictSet(@, pid, InvalidJSONColon \o <<" ">> \o e.msg \o <<":"," ">>
                            \o head.v \o <<".",".",".">>)]

\* Lines 121-127 for the value json.loads gave: obj.get on a value that is
\* no object raises AttributeError, which the handler does not catch.
RowOrEntry(acc, pid, content, obj) ==
  IF ~obj.ok THEN InvalidJSONEntry(acc, pid, obj, First160(content))
  ELSE IF obj.v.t # "dict" THEN [acc EXCEPT !.exc = "AttributeError"]
  ELSE [acc EXCEPT !.rows =
          Append(@, [id |-> pid,
                     persona |-> Strip(PyStrOf(DictGet(obj.v.pairs, <<"p","e","r","s","o","n","a">>, PyText(<<>>))))])]

ExtractRow(acc, pid, content) ==
  IF acc.exc # "none" THEN acc ELSE RowOrEntry(acc, pid, content, json_loads(content))

RECURSIVE ExtractFrom(_, _, _)
ExtractFrom(acc, results, k) ==
  IF k > Len(results) THEN acc
  ELSE ExtractFrom(ExtractRow(acc, results[k][1], results[k][2]), results, k + 1)

\* Lines 120-127 of batch_enricher.main: the rows read from the results map.
\* A content that is no JSON is recorded in the errors map; a content that
\* is no str makes the handler's content[:160] raise TypeError unless it is
\* a list, and a JSON value that is no object makes obj.get raise
\* AttributeError: both leave main.
extract_rows(results, errors) ==
  ExtractFrom([rows |-> <<>>, errors |-> errors, exc |-> "none"], results, 1)

BatchErrorColon == <<"B","a","t","c","h"," ","e","r","r","o","r",":">>

\* The inner function skip_reason of batch_enricher.main.
skip_reason(pid, persona, errors) ==
  LET s == Strip(PyStr(OrEmpty(persona))) IN
  IF s = <<>> THEN BatchErrorColon \o <<" ">> \o DictGet(errors, pid, NoLLMResponse)
  ELSE IF s \notin VALID_PERSONAS THEN InvalidPersona(s)
  ELSE None

\* df holds a Prospect Id as the number whose decimal text the cell is; a
\* row read from the output carries the id as text.  The merges on
\* "Prospect Id" compare the texts: an id that is the text of no positive
\* number matches no row of df, as 0 does.
ProspectIdOf(pid) ==
  IF pid # <<>> /\ Len(pid) <= 9 /\ AllDigits(pid) /\ Head(pid) # "0" THEN DigitsVal(pid) ELSE 0

OnProspectId(formatted) ==
  [k \in 1..Len(formatted) |-> [formatted[k] EXCEPT !.id = ProspectIdOf(@)]]

\* Lines 160-163: df.merge(corrected_df, on="Prospect Id", how="inner").
merge_inner(table, corrected) ==
  LET F[k \in 0..Len(table)] ==
        IF k = 0 THEN <<>>
        ELSE F[k - 1] \o SelectSeq(corrected, LAMBDA r : r.id = table[k])
  IN F[Len(table)]

\* Lines 152-168: the corrected rows join the accepted table.
BatchResult(table, final1, skipped0, fuzzy) ==
  [final |-> IF skipped0 # <<>> /\ fuzzy[1] # <<>>
             THEN drop_duplicates(final1 \o merge_inner(table, fuzzy[1]))
             ELSE final1,
   skipped |-> IF skipped0 # <<>> /\ fuzzy[1] # <<>> THEN fuzzy[2] ELSE skipped0]

\* Lines 144-149: the split by Skip Reason, de-duplication and vocabulary
\* filter of the accepted table.
BatchSplitRows(table, merged) ==
  BatchResult(table,
              SelectSeq(drop_duplicates(SelectSeq(merged, LAMBDA r : r.reason = None)),
                        LAMBDA r : r.persona \in VALID_PERSONAS),
              SelectSeq(merged, LAMBDA r : r.reason # None),
              fuzzy_match_invalid_personas(SelectSeq(merged, LAMBDA r : r.reason # None)))

\* Lines 133-144: Skip Reason of every merged row.
WithBatchSkipReason(joined, errors) ==
  [k \in 1..Len(joined) |->
     [id |-> joined[k].id, persona |-> joined[k].persona,
      reason |-> skip_reason(IntToStr(joined[k].id), joined[k].persona, errors)]]

\* Lines 129-168 of batch_enricher.main: merge, skip reasons, split,
\* de-duplication and vocabulary filter of the accepted table, fuzzy
\* correction; corrected rows come back through an inner merge with df.
BatchTables(table, formatted, errors) ==
  BatchSplitRows(table, WithBatchSkipReason(merge_left(table, OnProspectId(formatted)), errors))

----------------------------------------------------------------------------
(* streaming_enricher.py: main and call_with_retries *)

\* Largest input table of a run.
MaxRows == 26

\* The endpoint fails at most this many calls of a run over MaxRows rows, and
\* at most this many in the runs whose replies may name valid personas.
MaxFailures == 10
MaxRateLimits == 6

\* A table small enough to follow every row's replies through the passes.
FewRows == 3

\* What the model writes in the Persona column of a reply: a member of the
\* vocabulary, the same with a leading blank, a near miss, a stranger.
ReplyPersonas ==
  { <<"D","a","t","a"," ","U","s","e","r">>,
    <<" ","D","a","t","a"," ","U","s","e","r">>,
    <<"E","c","o","n","o","m","i","c"," "," ","B","u","y","e","r">>,
    <<"F","o","o">> }

\* A reply answers every row of the chunk, or leaves out its last row.
ReplyShapes == {"all", "dropLast"}

\* A reply that answers every row of the chunk and carries a row of its own
\* making: one for the first row of the input table or one with an id that
\* is in no input row, with a member of the vocabulary and ahead of the
\* answers, or one with such an id and a stranger, after the answers.
StrayShapes == {"strayFirstValid", "strayUnknownValid", "strayUnknownInvalid"}

ReplyRows(ids, shape, persona) ==
  LET n == IF shape = "dropLast" THEN Len(ids) - 1 ELSE Len(ids)
      asked == [k \in 1..n |-> [id |-> ids[k], persona |-> persona]]
  IN IF shape = "strayUnknownValid"
     THEN << [id |-> 0, persona |-> <<"D","a","t","a"," ","U","s","e","r">>] >> \o asked
     ELSE IF shape = "strayFirstValid"
     THEN << [id |-> 1, persona |-> <<"D","a","t","a"," ","U","s","e","r">>] >> \o asked
     ELSE IF shape = "strayUnknownInvalid"
     THEN Append(asked, [id |-> 0, persona |-> <<"F","o","o">>])
     ELSE asked

\* No exception caught yet.
NoErr == [exc |-> "none", msg |-> <<>>]

RECURSIVE Pow2(_)
Pow2(n) == IF n = 0 THEN 1 ELSE 2 * Pow2(n - 1)

\* Line 86: min(MAX_BACKOFF, INITIAL_BACKOFF * 2 ** attempt + uniform(0, 1.0)),
\* j is the jitter.  The faulty variant grows linearly.
Backoff_linear(k, j) ==
  FloatMin(Seconds(MAX_BACKOFF), FloatAdd(Seconds(INITIAL_BACKOFF * (k + 1)), j))

Backoff(k, j) ==
  FloatMin(Seconds(MAX_BACKOFF), FloatAdd(Seconds(INITIAL_BACKOFF * Pow2(k)), j))

\* Line 87.  The faulty variant sleeps the backoff only.
SleepFor_backoff(wait, back) == back

SleepFor(wait, back) == FloatMax(wait, back)

\* Line 88: the failure is taken for a rate limit.
IsRateLimit(msg) ==
  \/ Contains(Lower(msg), <<"r","a","t","e"," ","l","i","m","i","t">>)
  \/ Contains(msg, <<"4","2","9">>)

\* Lines 90-96: the chunk size after a rate limit.  The faulty variant forgets the
\* floor.
Shrink_nofloor(size) == size \div 2

Shrink_keep(size) == size

Shrink(size) ==
  LET new_size == Max(MIN_CHUNK, size \div 2) IN
  IF new_size < size THEN new_size ELSE size

\* Line 219: the chunk size of the next pass.  The faulty variant forgets the floor.
NextPassChunk_nofloor(size) == size \div 2

NextPassChunk(size) == Max(MIN_CHUNK, size \div 2)

\* What lines 84-88 compute from the message of each exception that
\* ask_chat_session raises in the checked runs, from each sample of the
\* jitter and for each attempt, computed once.
CheckedMessages == { failed[2].msg : failed \in { answer \in Answers : ~answer[2].ok } }

Waits == { <<msg, extract_retry_after_seconds(msg)>> : msg \in CheckedMessages }

RateLimits == { msg \in CheckedMessages : IsRateLimit(msg) }

Jitters == [j \in 0..JitterSteps |-> Jitter(j)]

Backoffs == [k \in 0..(MAX_RETRIES - 1) |-> [j \in 0..JitterSteps |-> Backoff(k, Jitters[j])]]


VARIABLES
  df,             \* the input table after the filters: its Prospect Ids in order
  pc,             \* where main stands
  p,              \* pass number
  df_pass,        \* rows of this pass
  i, end_i,       \* the chunk is df_pass[i:end_i]
  current_chunk,  \* chunk size of main
  remaining_ids, failed_ids,
  all_results,    \* replies recorded so far
  local_chunk,    \* chunk size inside call_with_retries
  attempt,        \* attempts made for the current chunk
  last_err,       \* last exception caught by call_with_retries
  server_wait, jitter, backoff, sleep_for,  \* the wait of the last failed attempt
  raised,         \* the exception main caught for the last failed chunk
  final_df, skipped_df,
  jsonl_output,   \* batch_enricher.main: the lines of the downloaded output file
  result_map, errors_map,  \* the two maps of parse_batch_output_jsonl
  rows,           \* the rows extracted from result_map
  row,            \* the Persona cell of a row given to determine_skip_reason
  reason,         \* what determine_skip_reason returned for it
  messages,       \* llm_client: session["messages"]
  api_key,        \* the OPENAI_API_KEY of the environment
  meta, now,      \* batch_core._estimate_eta: the batch metadata and time.time()
  eta,            \* what _estimate_eta returned
  poll_interval, max_backoff, hard_timeout_seconds,  \* poll_batch_until_done's arguments
  clock,          \* seconds since poll_batch_until_done took its start time
  poll_backoff,   \* poll_batch_until_done's local backoff
  status,         \* the status of the last metadata retrieved
  last_poll,      \* how the last status request ended
  slept,          \* the length of the last sleep of the poller
  corrected_df, still_skipped_df,  \* what fuzzy_match_invalid_personas returned
  has_prospect_id,         \* hubspot_client.import_classified_contacts: df has the column
  contacts_with_id, contacts_needing_lookup,
  emails,                  \* the emails _lookup_contact_ids_by_emails has still to search
  email_to_id,
  update_inputs,
  batch_i,                 \* the loop variable i of the update batches
  success_count, failed_count, not_found_count,
  checkpoints,             \* batch pipeline: the names given to save_checkpoint_raw
  downloads,               \* batch pipeline: the files asked of download_file_content
  df_skip,                 \* batch_rerun_skipped.main: the skipped CSV as read
  df_todo,                 \* its rows selected for the rerun
  requests,                \* the request files uploaded, each as its custom ids
  merged                   \* df_skip merged with the new results

vars == << df, pc, p, df_pass, i, end_i, current_chunk, remaining_ids, failed_ids,
           all_results, local_chunk, attempt, last_err, server_wait, jitter,
           backoff, sleep_for, raised, final_df, skipped_df,
           jsonl_output, result_map, errors_map, rows, row, reason,
           messages, api_key, meta, now, eta, poll_interval, max_backoff, hard_timeout_seconds,
           clock, poll_backoff, status, last_poll, slept,
           corrected_df, still_skipped_df,
           has_prospect_id, contacts_with_id, contacts_needing_lookup, emails, email_to_id,
           update_inputs, batch_i, success_count, failed_count, not_found_count,
           checkpoints, downloads, df_skip, df_todo, requests, merged >>

\* The variables of streaming_enricher's loops, of batch_enricher.main, and of
\* a single call of determine_skip_reason.
streamVars == << p, df_pass, i, end_i, current_chunk, remaining_ids, failed_ids,
                 all_results, local_chunk, attempt, last_err, server_wait, jitter,
                 backoff, sleep_for, raised >>
batchVars == << jsonl_output, result_map, errors_map, rows >>
rowVars == << row, reason >>

\* The variables of a chat session, of _estimate_eta and of poll_batch_until_done.
sessionVars == << messages, api_key >>
etaVars == << meta, now, eta >>
pollVars == << poll_interval, max_backoff, hard_timeout_seconds, clock, poll_backoff,
               status, last_poll, slept >>
\* The variables of the helpers that are checked on their own.
fuzzyVars == << corrected_df, still_skipped_df >>
importVars == << has_prospect_id, contacts_with_id, contacts_needing_lookup, emails,
                 email_to_id, update_inputs, batch_i, success_count, failed_count,
                 not_found_count >>
runVars == << checkpoints, downloads >>
rerunVars == << df_skip, df_todo, requests, merged >>
toolVars == << fuzzyVars, importVars, runVars, rerunVars >>
clientVars == << sessionVars, etaVars, pollVars, toolVars >>

\* A value for a variable the running function does not have.
Unset == <<"<unset>">>

\* No metadata retrieved yet, and a number that is not there (None, or a key
\* the metadata does not have).
NoStatus == "<unset>"
Missing == -1

\* The variables of the functions that are not running.
StreamIdle ==
  /\ p = 0
  /\ df_pass = <<>>
  /\ i = 0
  /\ end_i = 0
  /\ current_chunk = MAX_CHUNK
  /\ remaining_ids = {}
  /\ failed_ids = {}
  /\ all_results = <<>>
  /\ local_chunk = MAX_CHUNK
  /\ attempt = 0
  /\ last_err = [exc |-> "none", msg |-> <<>>]
  /\ server_wait = Seconds(0)
  /\ jitter = Seconds(0)
  /\ backoff = Seconds(0)
  /\ sleep_for = Seconds(0)
  /\ raised = [exc |-> "none", msg |-> <<>>]

BatchIdle ==
  /\ jsonl_output = <<>>
  /\ result_map = <<>>
  /\ errors_map = <<>>
  /\ rows = <<>>

RowIdle ==
  /\ row = Unset
  /\ reason = Unset

FuzzyIdle ==
  /\ corrected_df = <<>>
  /\ still_skipped_df = <<>>

ImportIdle ==
  /\ has_prospect_id = FALSE
  /\ contacts_with_id = <<>>
  /\ contacts_needing_lookup = <<>>
  /\ emails = {}
  /\ email_to_id = <<>>
  /\ update_inputs = <<>>
  /\ batch_i = 0
  /\ success_count = 0
  /\ failed_count = 0
  /\ not_found_count = 0

RunIdle ==
  /\ checkpoints = <<>>
  /\ downloads = <<>>

RerunIdle ==
  /\ df_skip = <<>>
  /\ df_todo = <<>>
  /\ requests = <<>>
  /\ merged = <<>>

ToolIdle ==
  /\ FuzzyIdle
  /\ ImportIdle
  /\ RunIdle
  /\ RerunIdle

PollerIdle ==
  /\ meta = Unset
  /\ now = 0
  /\ eta = Unset
  /\ poll_interval = 0
  /\ max_backoff = 0
  /\ hard_timeout_seconds = Missing
  /\ clock = 0
  /\ poll_backoff = 0
  /\ status = NoStatus
  /\ last_poll = "none"
  /\ slept = 0

ClientIdle ==
  /\ ToolIdle
  /\ PollerIdle
  /\ messages = <<>>
  /\ api_key = Unset

\* The system message of the session (frame and personas), the key that
\* load_env_or_fail found, and the Job Title of the rows of the checked tables.
SystemText == <<"f","r","a","m","e">>
ApiKey == <<"s","k","-","1">>
JobTitle == <<"C","T","O">>

\* Lines 173-176: the chunk as lines "<Prospect Id>,<Job Title>".
RECURSIVE job_titles_table(_)
job_titles_table(chunk) ==
  IF chunk = <<>> THEN <<>>
  ELSE IF Len(chunk) = 1 THEN IntToStr(chunk[1]) \o <<",">> \o JobTitle
  ELSE IntToStr(chunk[1]) \o <<",">> \o JobTitle \o <<"\n">> \o job_titles_table(Tail(chunk))

\* The chunk being sent.
Chunk == SubSeq(df_pass, i + 1, end_i)

\* chunk["Prospect Id"].tolist().  The faulty variant names the first row only.
ChunkIds_first == { Chunk[1] }

ChunkIds == { Chunk[k] : k \in 1..Len(Chunk) }

\* main up to line 147, for an input table of one of the given sizes:
\* load_env_or_fail found a key (line 125) and the session holds the system
\* message (line 141).
MainInit(sizes) ==
  /\ df \in { [k \in 1..n |-> k] : n \in sizes }
  /\ pc = "pass_head"
  /\ p = 1
  /\ df_pass = <<>>
  /\ i = 0
  /\ end_i = 0
  /\ current_chunk = MAX_CHUNK
  /\ remaining_ids = { df[k] : k \in 1..Len(df) }
  /\ failed_ids = {}
  /\ all_results = <<>>
  /\ local_chunk = MAX_CHUNK
  /\ attempt = 0
  /\ last_err = NoErr
  /\ server_wait = Seconds(0)
  /\ jitter = Seconds(0)
  /\ backoff = Seconds(0)
  /\ sleep_for = Seconds(0)
  /\ raised = NoErr
  /\ final_df = <<>>
  /\ skipped_df = <<>>
  /\ BatchIdle
  /\ RowIdle
  /\ ToolIdle
  /\ PollerIdle
  /\ messages = create_chat_session(SystemText)
  /\ api_key = ApiKey

\* Lines 150-160: a pass starts.
StartPass ==
  /\ pc = "pass_head"
  /\ p <= MAX_PASSES
  /\ remaining_ids # {}
  /\ df_pass' = SelectSeq(df, LAMBDA id : id \in remaining_ids)
  /\ failed_ids' = {}
  /\ i' = 0
  /\ pc' = "dispatch"
  /\ UNCHANGED << batchVars, rowVars, clientVars >>
  /\ UNCHANGED << df, p, end_i, current_chunk, remaining_ids, all_results, local_chunk,
                  attempt, last_err, server_wait, jitter, backoff, sleep_for, raised,
                  final_df, skipped_df >>

\* Lines 150-152: the pass loop ends.
ExitPasses ==
  /\ pc = "pass_head"
  /\ p > MAX_PASSES \/ remaining_ids = {}
  /\ pc' = "final"
  /\ UNCHANGED << batchVars, rowVars, clientVars >>
  /\ UNCHANGED << df, p, df_pass, i, end_i, current_chunk, remaining_ids, failed_ids,
                  all_results, local_chunk, attempt, last_err, server_wait, jitter,
                  backoff, sleep_for, raised, final_df, skipped_df >>

\* Lines 162-178 and 75-77: the next chunk is sliced and call_with_retries entered.
Dispatch ==
  /\ pc = "dispatch"
  /\ i < Len(df_pass)
  /\ end_i' = Min(i + current_chunk, Len(df_pass))
  /\ local_chunk' = current_chunk
  /\ attempt' = 0
  /\ last_err' = NoErr
  /\ pc' = "call"
  /\ UNCHANGED << batchVars, rowVars, clientVars >>
  /\ UNCHANGED << df, p, df_pass, i, current_chunk, remaining_ids, failed_ids, all_results,
                  server_wait, jitter, backoff, sleep_for, raised, final_df, skipped_df >>

\* Lines 79-80, 178-182 and 197-199: an attempt succeeds.
CallReturns(shapes, personas) ==
  /\ pc = "call"
  /\ attempt < MAX_RETRIES
  /\ \E shape \in shapes, persona \in personas :
       LET out == ask_chat_session(messages, job_titles_table(Chunk), api_key,
                                   [kind |-> "http", status |-> 200,
                                    rows |-> ReplyRows(Chunk, shape, persona)])
       IN /\ out.ok
          /\ messages' = out.messages
          /\ all_results' = IF out.txt # <<>> THEN Append(all_results, out.txt)
                            ELSE all_results
  /\ current_chunk' = local_chunk
  /\ attempt' = attempt + 1
  /\ i' = end_i
  /\ pc' = "dispatch"
  /\ UNCHANGED << batchVars, rowVars, api_key, etaVars, pollVars, toolVars >>
  /\ UNCHANGED << df, p, df_pass, end_i, remaining_ids, failed_ids, local_chunk, last_err,
                  server_wait, jitter, backoff, sleep_for, raised, final_df, skipped_df >>

\* Lines 79-101: an attempt raises, the wait is computed, a rate limit shrinks
\* the chunk size, and the wait is slept.
CallRaises(responses, jitters) ==
  /\ pc = "call"
  /\ attempt < MAX_RETRIES
  /\ LET user_message == job_titles_table(Chunk) IN
     \E r \in responses, j \in jitters :
       LET out == ask_chat_session(messages, user_message, api_key, r) IN
       /\ ~out.ok
       /\ out.exc \in Retried
       /\ messages' = out.messages
       /\ last_err' = [exc |-> out.exc, msg |-> out.msg]
       /\ server_wait' = Lookup(Waits, out.msg)
       /\ jitter' = Jitters[j]
       /\ backoff' = Backoffs[attempt][j]
       /\ sleep_for' = SleepFor(server_wait', backoff')
       /\ local_chunk' = IF out.msg \in RateLimits THEN Shrink(local_chunk) ELSE local_chunk
  /\ attempt' = attempt + 1
  /\ UNCHANGED << batchVars, rowVars, api_key, etaVars, pollVars, toolVars >>
  /\ UNCHANGED << df, pc, p, df_pass, i, end_i, current_chunk, remaining_ids, failed_ids,
                  all_results, raised, final_df, skipped_df >>

\* Lines 79 and 178: the call raises an exception that neither
\* call_with_retries (line 81) nor main (line 183) catches, and main ends
\* with it.
CallBreaks(responses) ==
  /\ pc = "call"
  /\ attempt < MAX_RETRIES
  /\ LET user_message == job_titles_table(Chunk) IN
     \E r \in responses :
       LET out == ask_chat_session(messages, user_message, api_key, r) IN
       /\ ~out.ok
       /\ out.exc \in Uncaught
       /\ messages' = out.messages
       /\ pc' = out.exc
  /\ UNCHANGED << batchVars, rowVars, api_key, etaVars, pollVars, toolVars >>
  /\ UNCHANGED << df, p, df_pass, i, end_i, current_chunk, remaining_ids, failed_ids,
                  all_results, local_chunk, attempt, last_err, server_wait, jitter,
                  backoff, sleep_for, raised, final_df, skipped_df >>

\* A faulty variant of the failure of a chunk that takes the rows of the chunk
\* out of remaining_ids at once.
RetriesExhausted_drops ==
  /\ pc = "call"
  /\ attempt = MAX_RETRIES
  /\ raised' = last_err
  /\ failed_ids' = failed_ids \cup ChunkIds
  /\ remaining_ids' = remaining_ids \ ChunkIds
  /\ i' = end_i
  /\ pc' = "dispatch"
  /\ UNCHANGED << batchVars, rowVars, clientVars >>
  /\ UNCHANGED << df, p, df_pass, end_i, current_chunk, all_results,
                  local_chunk, attempt, last_err, server_wait, jitter, backoff, sleep_for,
                  final_df, skipped_df >>

\* Lines 102 and 183-199: the retries are used up, the last error is raised,
\* and main marks the chunk failed and goes on.
RetriesExhausted ==
  /\ pc = "call"
  /\ attempt = MAX_RETRIES
  /\ raised' = last_err
  /\ failed_ids' = failed_ids \cup ChunkIds
  /\ i' = end_i
  /\ pc' = "dispatch"
  /\ UNCHANGED << batchVars, rowVars, clientVars >>
  /\ UNCHANGED << df, p, df_pass, end_i, current_chunk, remaining_ids, all_results,
                  local_chunk, attempt, last_err, server_wait, jitter, backoff, sleep_for,
                  final_df, skipped_df >>

\* A faulty variant of the end of a pass that does not count the pass.
EndPass_samepass ==
  /\ pc = "dispatch"
  /\ i >= Len(df_pass)
  /\ remaining_ids' = (remaining_ids \ OkIds(all_results)) \cup failed_ids
  /\ current_chunk' = IF remaining_ids' # {} THEN NextPassChunk(current_chunk)
                      ELSE current_chunk
  /\ pc' = "pass_head"
  /\ UNCHANGED << batchVars, rowVars, clientVars >>
  /\ UNCHANGED << df, p, df_pass, i, end_i, failed_ids, all_results, local_chunk, attempt,
                  last_err, server_wait, jitter, backoff, sleep_for, raised, final_df,
                  skipped_df >>

\* A faulty variant of the end of a pass that also keeps for the next pass
\* every id that a reply names without a member of the vocabulary.
EndPass_retryinvalid ==
  /\ pc = "dispatch"
  /\ i >= Len(df_pass)
  /\ remaining_ids' =
       ((remaining_ids \ OkIds(all_results)) \cup failed_ids)
         \cup ({ parse_llm_csv(all_results)[k].id : k \in 1..Len(parse_llm_csv(all_results)) }
                 \ OkIds(all_results))
  /\ current_chunk' = IF remaining_ids' # {} THEN NextPassChunk(current_chunk)
                      ELSE current_chunk
  /\ p' = p + 1
  /\ pc' = "pass_head"
  /\ UNCHANGED << batchVars, rowVars, clientVars >>
  /\ UNCHANGED << df, df_pass, i, end_i, failed_ids, all_results, local_chunk, attempt,
                  last_err, server_wait, jitter, backoff, sleep_for, raised, final_df,
                  skipped_df >>

\* Lines 201-219: the pass ends.
EndPass ==
  /\ pc = "dispatch"
  /\ i >= Len(df_pass)
  /\ remaining_ids' = (remaining_ids \ OkIds(all_results)) \cup failed_ids
  /\ current_chunk' = IF remaining_ids' # {} THEN NextPassChunk(current_chunk)
                      ELSE current_chunk
  /\ p' = p + 1
  /\ pc' = "pass_head"
  /\ UNCHANGED << batchVars, rowVars, clientVars >>
  /\ UNCHANGED << df, df_pass, i, end_i, failed_ids, all_results, local_chunk, attempt,
                  last_err, server_wait, jitter, backoff, sleep_for, raised, final_df,
                  skipped_df >>

\* Lines 221-247: the accepted and the skipped table.
Finalize ==
  /\ pc = "final"
  /\ LET tables == StreamingTables(df, all_results) IN
       /\ final_df' = tables.final
       /\ skipped_df' = tables.skipped
  /\ pc' = "save"
  /\ UNCHANGED << batchVars, rowVars, clientVars >>
  /\ UNCHANGED << df, p, df_pass, i, end_i, current_chunk, remaining_ids, failed_ids,
                  all_results, local_chunk, attempt, last_err, server_wait, jitter,
                  backoff, sleep_for, raised >>

\* Line 250: save_outputs is called with the keyword import_to_hubspot, which
\* io_utils.save_outputs does not take: the call raises TypeError.
Save ==
  /\ pc = "save"
  /\ pc' = "save_outputs: TypeError"
  /\ UNCHANGED << batchVars, rowVars, clientVars >>
  /\ UNCHANGED << df, p, df_pass, i, end_i, current_chunk, remaining_ids, failed_ids,
                  all_results, local_chunk, attempt, last_err, server_wait, jitter,
                  backoff, sleep_for, raised, final_df, skipped_df >>

----------------------------------------------------------------------------
(* batch_enricher.py: main from line 116 on, for a completed batch *)

\* Largest input table of a batch run.
BatchRows == 2

DataUser == <<"D","a","t","a"," ","U","s","e","r">>
Foo == <<"F","o","o">>
EconomicBuyerWide == <<"E","c","o","n","o","m","i","c"," "," ","B","u","y","e","r">>

PersonaOpen == <<"{","\"","p","e","r","s","o","n","a","\"",":"," ">>

\* What the model answers to one request: an object with a member of the
\* vocabulary, the same with a certainty, the same padded, a near miss, a
\* stranger, null, or no persona; a text that is no JSON; a JSON list; a
\* member of the vocabulary after an em space (U+2003).
BatchContents ==
  { PersonaOpen \o JsonText(DataUser) \o <<"}">>,
    PersonaOpen \o JsonText(<<Chr(8195)>> \o DataUser) \o <<"}">>,
    PersonaOpen \o JsonText(DataUser) \o <<","," ","\"","c","e","r","t","a","i","n","t","y","\"",":"," ","9","0","}">>,
    PersonaOpen \o JsonText(<<" ">> \o DataUser \o <<" ">>) \o <<"}">>,
    PersonaOpen \o JsonText(EconomicBuyerWide) \o <<"}">>,
    PersonaOpen \o JsonText(Foo) \o <<"}">>,
    PersonaOpen \o <<"n","u","l","l","}">>,
    <<"{","}">>,
    DataUser,
    <<"[","]">> }

\* The response member of a line, after the custom_id member.
ResponseMember(status_code, body) ==
  <<","," ","\"","r","e","s","p","o","n","s","e","\"",":"," ","{","\"","s","t","a","t","u","s","_","c","o","d","e","\"",":"," ">> \o status_code \o <<","," ","\"","r","e","q","u","e","s","t","_","i","d","\"",":"," ","\"","r","e","q","_","1","\"",","," ","\"","b","o","d","y","\"",":"," ">> \o body \o <<"}">>

\* The response recorded for one request: a 200 with a content that is a
\* text or null, a 200 whose body has no choices, a 500 with an error
\* message, a response whose status is no number.
BatchResponses ==
  { ResponseMember(<<"2","0","0">>, ChoicesBody(JsonText(c))) : c \in BatchContents }
  \cup { ResponseMember(<<"2","0","0">>, ChoicesBody(<<"n","u","l","l">>)),
         ResponseMember(<<"2","0","0">>, <<"{","}">>),
         ResponseMember(<<"5","0","0">>, <<"{","\"","e","r","r","o","r","\"",":"," ","{","\"","m","e","s","s","a","g","e","\"",":"," ","\"","s","e","r","v","e","r"," ","e","r","r","o","r","\"","}","}">>),
         ResponseMember(<<"\"","a","b","c","\"">>, <<"{","}">>) }

\* What the output file holds for one request: a line with a response, a
\* line whose response is null (the request failed before any HTTP answer),
\* a line without response, a blank line, a line that is no JSON, or no
\* line.
BatchAnswers ==
  { [line |-> "object", rest |-> r] : r \in BatchResponses \cup {<<","," ","\"","r","e","s","p","o","n","s","e","\"",":"," ","n","u","l","l">>, <<>>} }
  \cup { [line |-> "text", text |-> <<>>],
         [line |-> "text", text |-> <<"u","p","s","t","r","e","a","m"," ","t","i","m","e","o","u","t">>],
         [line |-> "none"] }

\* The line of the output file for one request.
OutputLine(id, answer) ==
  IF answer.line = "none" THEN <<>>
  ELSE IF answer.line = "text" THEN answer.text \o <<"\n">>
  ELSE <<"{","\"","c","u","s","t","o","m","_","i","d","\"",":"," ","\"">> \o IntToStr(id) \o <<"\"">> \o answer.rest \o <<"}","\n">>

\* The output file for a table and an answer per row.
RECURSIVE OutputFrom(_, _, _)
OutputFrom(table, answer, k) ==
  IF k > Len(table) THEN <<>>
  ELSE OutputLine(table[k], answer[k]) \o OutputFrom(table, answer, k + 1)

OutputLines(table, answer) == OutputFrom(table, answer, 1)

\* main up to line 114: the table after the filters and the downloaded output.
BatchInit ==
  /\ df \in { [k \in 1..n |-> k] : n \in 1..BatchRows }
  /\ jsonl_output \in { OutputLines(df, answer) :
                          answer \in [1..Len(df) -> BatchAnswers] }
  /\ pc = "batch_parse"
  /\ result_map = <<>>
  /\ errors_map = <<>>
  /\ rows = <<>>
  /\ final_df = <<>>
  /\ skipped_df = <<>>
  /\ StreamIdle
  /\ RowIdle
  /\ ClientIdle

\* Line 117: the two maps are assigned, or an exception leaves main.
BatchParse ==
  /\ pc = "batch_parse"
  /\ LET parsed == parse_batch_output_jsonl(jsonl_output) IN
       IF parsed.exc = "none"
       THEN /\ result_map' = parsed.out
            /\ errors_map' = parsed.errors
            /\ pc' = "batch_extract"
       ELSE /\ UNCHANGED << result_map, errors_map >>
            /\ pc' = parsed.exc
  /\ UNCHANGED << df, final_df, skipped_df, jsonl_output, rows, streamVars, rowVars, clientVars >>

\* Lines 120-127: the loop ends, or an exception leaves main.
BatchExtract ==
  /\ pc = "batch_extract"
  /\ LET got == extract_rows(result_map, errors_map) IN
       /\ rows' = got.rows
       /\ errors_map' = got.errors
       /\ pc' = IF got.exc = "none" THEN "batch_merge" ELSE got.exc
  /\ UNCHANGED << df, final_df, skipped_df, jsonl_output, result_map, streamVars, rowVars, clientVars >>

\* Lines 129-168.
BatchSplit ==
  /\ pc = "batch_merge"
  /\ LET tables == BatchTables(df, rows, errors_map) IN
       /\ final_df' = tables.final
       /\ skipped_df' = tables.skipped
  /\ pc' = "batch_save"
  /\ UNCHANGED << df, batchVars, streamVars, rowVars, clientVars >>

\* Line 171: save_outputs(final_df, skipped_df) writes the two files.
BatchSave ==
  /\ pc = "batch_save"
  /\ pc' = "done"
  /\ UNCHANGED << df, final_df, skipped_df, batchVars, streamVars, rowVars, clientVars >>

NextBatch ==
  \/ BatchParse
  \/ BatchExtract
  \/ BatchSplit
  \/ BatchSave

SpecBatch == BatchInit /\ [][NextBatch]_vars

----------------------------------------------------------------------------
(* parsing.determine_skip_reason on one row *)

LeftPads == { <<>>, <<" ">>, <<"\t"," ">>, <<Chr(8195)>> }
RightPads == { <<>>, <<" ">>, <<" ","\n">> }

\* Persona cells: the vocabulary, near misses, strangers and the empty text,
\* bare and padded with whitespace, and the two cells that are no text.
PersonaCells ==
  { l \o c \o r : l \in LeftPads, r \in RightPads,
                  c \in VALID_PERSONAS \cup { Foo, EconomicBuyerWide, <<>>,
                                             <<"n","a","n">>, <<"d","a","t","a"," ","u","s","e","r">> } }
  \cup { NaN, None }

RowInit ==
  /\ row \in PersonaCells
  /\ reason = Unset
  /\ pc = "row"
  /\ df = <<>>
  /\ final_df = <<>>
  /\ skipped_df = <<>>
  /\ StreamIdle
  /\ BatchIdle
  /\ ClientIdle

\* merged.apply(determine_skip_reason, axis=1) on the row.
ApplySkipReason ==
  /\ pc = "row"
  /\ reason' = determine_skip_reason(row)
  /\ pc' = "row_done"
  /\ UNCHANGED << df, final_df, skipped_df, row, streamVars, batchVars, clientVars >>

NextRow == ApplySkipReason

SpecRow == RowInit /\ [][NextRow]_vars

----------------------------------------------------------------------------
(* llm_client.py: the calls made on one chat session *)

\* Most calls of ask_chat_session followed on one session.
MaxCalls == 4

\* The calls made so far: every call appends its user message first (line 51).
Calls == Cardinality({ k \in 1..Len(messages) : messages[k].role = "user" })

SessionInit ==
  /\ messages = create_chat_session(SystemText)
  /\ pc = "session"
  /\ df = <<>>
  /\ final_df = <<>>
  /\ skipped_df = <<>>
  /\ StreamIdle
  /\ BatchIdle
  /\ RowIdle
  /\ api_key \in {ApiKey, None}
  /\ ToolIdle
  /\ meta = Unset /\ now = 0 /\ eta = Unset
  /\ poll_interval = 0 /\ max_backoff = 0 /\ hard_timeout_seconds = Missing
  /\ clock = 0 /\ poll_backoff = 0 /\ status = NoStatus /\ last_poll = "none" /\ slept = 0

\* Lines 48-65: the user message is appended, the endpoint answers 200, and
\* the assistant's reply is appended.
AskReturns ==
  /\ pc = "session"
  /\ Calls < MaxCalls
  /\ \E user_message \in Payloads, txt \in ReplyTexts :
       LET out == ask_chat_session(messages, user_message, api_key, Replied(txt))
       IN /\ out.ok
          /\ messages' = out.messages
  /\ UNCHANGED << df, pc, final_df, skipped_df, streamVars, batchVars, rowVars, toolVars,
                  api_key, etaVars, pollVars >>

\* Lines 48-61 and 66-82: the user message is appended and the call raises.
AskRaises ==
  /\ pc = "session"
  /\ Calls < MaxCalls
  /\ \E user_message \in Payloads, r \in FailedResponses \cup BrokenResponses :
       LET out == ask_chat_session(messages, user_message, api_key, r) IN
       /\ ~out.ok
       /\ out.exc # "RuntimeError"
       /\ messages' = out.messages
  /\ UNCHANGED << df, pc, final_df, skipped_df, streamVars, batchVars, rowVars, toolVars,
                  api_key, etaVars, pollVars >>

\* Lines 48-50: without a key the call raises RuntimeError and the session
\* is as it was.
AskWithoutKey ==
  /\ pc = "session"
  /\ \E user_message \in Payloads, r \in FailedResponses :
       LET out == ask_chat_session(messages, user_message, api_key, r) IN
       /\ ~out.ok
       /\ out.exc = "RuntimeError"
       /\ messages' = out.messages
       /\ pc' = out.exc
  /\ UNCHANGED << df, final_df, skipped_df, streamVars, batchVars, rowVars, toolVars,
                  api_key, etaVars, pollVars >>

NextSession ==
  \/ AskReturns
  \/ AskRaises
  \/ AskWithoutKey

SpecSession == SessionInit /\ [][NextSession]_vars

----------------------------------------------------------------------------
(* batch_core.py: _estimate_eta *)

\* Largest request count and latest time stamp (in seconds) of a batch's metadata.
MaxCount == 2
MaxStamp == 3

\* `v or d` for a number or None: None and 0 are falsy.
OrElse(v, d) == IF v = Missing \/ v = 0 THEN d ELSE v

\* The request_counts of a batch, with counts that may be absent; metadata
\* without request_counts reads like one in which all three are absent.
RequestCounts ==
  [completed : {Missing} \cup 0..MaxCount,
   failed : {Missing} \cup 0..MaxCount,
   total : {Missing} \cup 0..MaxCount]

\* The metadata retrieve_batch returns.
Metas ==
  [request_counts : RequestCounts,
   in_progress_at : {Missing} \cup 0..MaxStamp,
   started_at : {Missing} \cup 0..MaxStamp]

\* The estimate None.
NoEta == [num |-> 0, den |-> 0]

\* Lines 182-199.  The estimate remaining / (completed / elapsed) is kept as
\* the fraction num / den.  The faulty variant takes the elapsed time as it is.
estimate_eta_unclamped(m, t) ==
  LET rc == m.request_counts
      completed == OrElse(rc.completed, 0)
      failed == OrElse(rc.failed, 0)
      total == OrElse(rc.total, completed + failed)
      in_prog == OrElse(m.in_progress_at, OrElse(m.started_at, Missing))
  IN IF total = 0 \/ in_prog = Missing \/ completed <= 0
     THEN [completed |-> completed, total |-> total, eta |-> NoEta]
     ELSE [completed |-> completed, total |-> total,
           eta |-> [num |-> Max(0, total - completed) * (t - in_prog), den |-> completed]]

estimate_eta(m, t) ==
  LET rc == m.request_counts
      completed == OrElse(rc.completed, 0)
      failed == OrElse(rc.failed, 0)
      total == OrElse(rc.total, completed + failed)
      in_prog == OrElse(m.in_progress_at, OrElse(m.started_at, Missing))
  IN IF total = 0 THEN [completed |-> completed, total |-> total, eta |-> NoEta]
     ELSE IF in_prog = Missing THEN [completed |-> completed, total |-> total, eta |-> NoEta]
     ELSE LET elapsed == Max(1, t - in_prog)
              remaining == Max(0, total - completed)
          IN [completed |-> completed, total |-> total,
              \* rate = completed / elapsed; eta = None if rate <= 0
              eta |-> IF completed <= 0 THEN NoEta
                      ELSE [num |-> remaining * elapsed, den |-> completed]]

EtaInit ==
  /\ meta \in Metas
  /\ now \in 0..MaxStamp
  /\ eta = Unset
  /\ pc = "eta"
  /\ df = <<>>
  /\ final_df = <<>>
  /\ skipped_df = <<>>
  /\ StreamIdle
  /\ BatchIdle
  /\ RowIdle
  /\ ToolIdle
  /\ messages = <<>>
  /\ api_key = Unset
  /\ poll_interval = 0 /\ max_backoff = 0 /\ hard_timeout_seconds = Missing
  /\ clock = 0 /\ poll_backoff = 0 /\ status = NoStatus /\ last_poll = "none" /\ slept = 0

\* completed, total, eta = _estimate_eta(meta)
EstimateEta ==
  /\ pc = "eta"
  /\ eta' = estimate_eta(meta, now)
  /\ pc' = "eta_done"
  /\ UNCHANGED << df, final_df, skipped_df, streamVars, batchVars, rowVars, toolVars,
                  sessionVars, meta, now, pollVars >>

NextEta == EstimateEta

SpecEta == EtaInit /\ [][NextEta]_vars

----------------------------------------------------------------------------
(* batch_core.py: poll_batch_until_done.  The clock is the time since start
   (line 231) in whole seconds, rounded up: time passes in the sleeps, in
   the status requests and, a little, in the statements between them. *)

\* The defaults of poll_interval and max_backoff.
poll_interval_default == 20
max_backoff_default == 120

\* The elapsed time is followed up to MaxClock seconds; every hard timeout is
\* shorter.
MaxClock == 8

\* timeout=60 of the request of retrieve_batch (line 103).
request_timeout == 60

\* The seconds a status request can take: none to speak of, one, the timeout.
RequestSeconds == {0, 1, request_timeout}

\* The seconds that pass between two readings of time.time() with no sleep
\* and no request between them: none, or some, which rounds up to one.
StatementSeconds == {0, 1}

\* The arguments of a call: the defaults, and short intervals and caps with
\* and without a hard timeout.
PollArguments ==
  { [poll_interval |-> poll_interval_default, max_backoff |-> max_backoff_default,
     hard_timeout_seconds |-> Missing] }
  \cup [poll_interval : {1, 3}, max_backoff : {2, 8},
        hard_timeout_seconds : {Missing, 0, MaxClock - 2}]

\* The statuses a retrieved batch can have.
BatchStatuses ==
  { "validating", "in_progress", "finalizing", "expired",
    "completed", "failed", "cancelled", "canceled" }

\* Line 252.  The faulty variant also returns while the job is finalizing.
terminal_statuses_early == { "completed", "failed", "cancelled", "canceled", "finalizing" }

terminal_statuses == { "completed", "failed", "cancelled", "canceled" }

\* Line 235.  The faulty variant never gives up.
HardTimeoutExceeded_never(elapsed, limit) == FALSE

HardTimeoutExceeded(elapsed, limit) == limit # Missing /\ elapsed > limit

\* The clock after the seconds of a request, a sleep or both; it stops at
\* MaxClock.
AfterSleep(seconds) == Min(clock + seconds, MaxClock)

\* Lines 231-232.
PollInit ==
  /\ \E a \in PollArguments :
       /\ poll_interval = a.poll_interval
       /\ max_backoff = a.max_backoff
       /\ hard_timeout_seconds = a.hard_timeout_seconds
  /\ clock = 0
  /\ poll_backoff = poll_interval
  /\ status = NoStatus
  /\ last_poll = "none"
  /\ slept = 0
  /\ pc = "poll_check"
  /\ df = <<>>
  /\ final_df = <<>>
  /\ skipped_df = <<>>
  /\ StreamIdle
  /\ BatchIdle
  /\ RowIdle
  /\ ToolIdle
  /\ messages = <<>>
  /\ api_key = Unset
  /\ meta = Unset /\ now = 0 /\ eta = Unset

\* Lines 233-236: the head of the loop reads the time and gives up when it
\* exceeds the hard timeout; otherwise the status request is made.
PollCheck ==
  /\ pc = "poll_check"
  /\ \E d \in StatementSeconds : clock' = AfterSleep(d)
  /\ pc' = IF HardTimeoutExceeded(clock', hard_timeout_seconds) THEN "TimeoutError"
           ELSE "poll_request"
  /\ UNCHANGED << df, final_df, skipped_df, streamVars, batchVars, rowVars, toolVars,
                  sessionVars, etaVars, poll_interval, max_backoff, hard_timeout_seconds,
                  poll_backoff, status, last_poll, slept >>

\* Lines 239-256: the metadata is retrieved; a terminal status returns it,
\* any other status sleeps poll_interval and resets the backoff.
PollAnswered ==
  /\ pc = "poll_request"
  /\ \E s \in BatchStatuses, d \in RequestSeconds :
       /\ status' = s
       /\ last_poll' = "ok"
       /\ IF s \in terminal_statuses
          THEN /\ pc' = "poll_returned"
               /\ clock' = AfterSleep(d)
               /\ UNCHANGED << poll_backoff, slept >>
          ELSE /\ slept' = poll_interval
               /\ clock' = AfterSleep(d + poll_interval)
               /\ poll_backoff' = poll_interval
               /\ pc' = "poll_check"
  /\ UNCHANGED << df, final_df, skipped_df, streamVars, batchVars, rowVars, toolVars,
                  sessionVars, etaVars, poll_interval, max_backoff, hard_timeout_seconds >>

\* Lines 239 and 257-261: the request raises a RequestException; the poller
\* sleeps the backoff and doubles it up to max_backoff.
PollFails ==
  /\ pc = "poll_request"
  /\ last_poll' = "error"
  /\ slept' = poll_backoff
  /\ \E d \in RequestSeconds : clock' = AfterSleep(d + poll_backoff)
  /\ poll_backoff' = Min(max_backoff, poll_backoff * 2)
  /\ pc' = "poll_check"
  /\ UNCHANGED << df, final_df, skipped_df, streamVars, batchVars, rowVars, toolVars,
                  sessionVars, etaVars, poll_interval, max_backoff, hard_timeout_seconds,
                  status >>

NextPoll ==
  \/ PollCheck
  \/ PollAnswered
  \/ PollFails

SpecPoll == PollInit /\ [][NextPoll]_vars

\* The same runs when every status request returns or raises and the loop
\* goes on.
SpecPollFair ==
  /\ SpecPoll
  /\ WF_vars(PollCheck)
  /\ WF_vars(PollAnswered \/ PollFails)

----------------------------------------------------------------------------
(* parsing.fuzzy_match_invalid_personas on a skipped table *)

\* Largest skipped table given to the function.
MaxSkipped == 2

\* The Persona cells of skipped rows: no reply (NaN), an empty cell, a
\* stranger, a near miss of a member of the vocabulary.
SkippedPersonas == { NaN, <<>>, Foo, EconomicBuyerWide }

\* The skipped rows of the two pipelines: the Skip Reason is the one of
\* determine_skip_reason, or the batch pipeline's for a row without Persona.
SkippedRows ==
  { [id |-> id, persona |-> persona, reason |-> determine_skip_reason(persona)] :
      id \in 1..MaxSkipped, persona \in SkippedPersonas }
  \cup { [id |-> id, persona |-> <<>>,
          reason |-> BatchErrorColon \o <<" ">> \o NoLLMResponse] : id \in 1..MaxSkipped }

FuzzyInit ==
  /\ skipped_df \in UNION { [1..n -> SkippedRows] : n \in 0..MaxSkipped }
  /\ corrected_df = <<>>
  /\ still_skipped_df = <<>>
  /\ ImportIdle
  /\ RunIdle
  /\ RerunIdle
  /\ pc = "fuzzy"
  /\ df = <<>>
  /\ final_df = <<>>
  /\ StreamIdle
  /\ BatchIdle
  /\ RowIdle
  /\ messages = <<>>
  /\ api_key = Unset
  /\ meta = Unset /\ now = 0 /\ eta = Unset
  /\ poll_interval = 0 /\ max_backoff = 0 /\ hard_timeout_seconds = Missing
  /\ clock = 0 /\ poll_backoff = 0 /\ status = NoStatus /\ last_poll = "none" /\ slept = 0

\* corrected_df, still_skipped_df = fuzzy_match_invalid_personas(skipped_df)
FuzzyMatch ==
  /\ pc = "fuzzy"
  /\ LET fuzzy == fuzzy_match_invalid_personas(skipped_df) IN
       /\ corrected_df' = fuzzy[1]
       /\ still_skipped_df' = fuzzy[2]
  /\ pc' = "fuzzy_done"
  /\ UNCHANGED << df, final_df, skipped_df, streamVars, batchVars, rowVars,
                  sessionVars, etaVars, pollVars, importVars, runVars, rerunVars >>

NextFuzzy == FuzzyMatch

SpecFuzzy == FuzzyInit /\ [][NextFuzzy]_vars

----------------------------------------------------------------------------
(* batch_enricher.py: main from the return of poll_batch_until_done on *)

\* The id of the output file in the metadata of a batch.
OutputFileId == <<"f","i","l","e","-","1">>
OtherFileId == <<"f","i","l","e","-","2">>

\* The metadata of a batch in the status s as poll_batch_until_done returns
\* it: "output_file_id" is null, empty or an id, and "output_file_ids" is
\* absent, an empty list or a list of one id.
PolledMetas(s) ==
  { [status |-> s, output_file_id |-> f] : f \in {None, <<>>, OutputFileId} }
  \cup { [status |-> s, output_file_id |-> f, output_file_ids |-> g] :
           f \in {None, <<>>, OutputFileId}, g \in {<<>>, <<OtherFileId>>} }

\* (meta.get("output_file_ids") or [None])[0]
FirstOutputFileId(m) ==
  IF "output_file_ids" \in DOMAIN m /\ m.output_file_ids # <<>>
  THEN m.output_file_ids[1] ELSE None

\* Line 109 of batch_enricher.py and line 97 of batch_rerun_skipped.py:
\* meta.get("output_file_id") or (meta.get("output_file_ids") or [None])[0]
out_file(m) ==
  IF m.output_file_id \notin {None, <<>>} THEN m.output_file_id ELSE FirstOutputFileId(m)

\* main up to line 101: the batch is created or resumed and being polled.
BatchRunInit ==
  /\ df \in { [k \in 1..n |-> k] : n \in 1..BatchRows }
  /\ pc = "batch_poll"
  /\ jsonl_output = <<>>
  /\ result_map = <<>>
  /\ errors_map = <<>>
  /\ rows = <<>>
  /\ final_df = <<>>
  /\ skipped_df = <<>>
  /\ StreamIdle
  /\ RowIdle
  /\ ClientIdle

\* Lines 93 and 101: poll_batch_until_done returns the metadata of a batch in
\* a terminal status, with or without an output file.
BatchPolled ==
  /\ pc = "batch_poll"
  /\ \E s \in terminal_statuses : meta' \in PolledMetas(s)
  /\ pc' = "batch_polled"
  /\ UNCHANGED << df, final_df, skipped_df, streamVars, batchVars, rowVars,
                  sessionVars, now, eta, pollVars, toolVars >>

\* A faulty variant of the check that goes on whatever the status is.
BatchCheck_ignores ==
  /\ pc = "batch_polled"
  /\ pc' = "batch_file"
  /\ UNCHANGED << df, final_df, skipped_df, streamVars, batchVars, rowVars,
                  clientVars >>

\* Lines 104-106: a batch that is not completed ends main with RuntimeError,
\* after its metadata was saved as a checkpoint.
BatchCheck ==
  /\ pc = "batch_polled"
  /\ IF meta.status # "completed"
     THEN /\ checkpoints' = Append(checkpoints, "meta")
          /\ pc' = "RuntimeError"
     ELSE /\ checkpoints' = checkpoints
          /\ pc' = "batch_file"
  /\ UNCHANGED << df, final_df, skipped_df, streamVars, batchVars, rowVars,
                  sessionVars, etaVars, pollVars, fuzzyVars, importVars, rerunVars,
                  downloads >>

\* Lines 109-114: without an output file id (not out_file) main ends with
\* RuntimeError;
\* otherwise the file is downloaded and saved as a checkpoint.
BatchDownload ==
  /\ pc = "batch_file"
  /\ IF out_file(meta) \in {None, <<>>}
     THEN /\ pc' = "RuntimeError"
          /\ UNCHANGED << jsonl_output, checkpoints, downloads >>
     ELSE /\ downloads' = Append(downloads, out_file(meta))
          /\ jsonl_output' \in { OutputLines(df, answer) :
                                   answer \in [1..Len(df) -> BatchAnswers] }
          /\ checkpoints' = Append(checkpoints, "output")
          /\ pc' = "batch_parse"
  /\ UNCHANGED << df, final_df, skipped_df, streamVars, result_map, errors_map, rows,
                  rowVars, sessionVars, etaVars, pollVars, fuzzyVars, importVars,
                  rerunVars >>

NextBatchRun ==
  \/ BatchPolled
  \/ BatchCheck
  \/ BatchDownload
  \/ BatchParse
  \/ BatchExtract
  \/ BatchSplit
  \/ BatchSave

SpecBatchRun == BatchRunInit /\ [][NextBatchRun]_vars

----------------------------------------------------------------------------
(* batch_rerun_skipped.py: main *)

\* Largest skipped CSV of a rerun.
MaxRerun == 2

\* The Persona cell of a row of the skipped CSV as pd.read_csv(dtype=str)
\* gives it: an empty cell is NaN, a cell of spaces keeps its spaces.
RerunCells == { NaN, <<" ">>, DataUser, Foo }

\* The skipped CSVs: rows with a Prospect Id and a Persona cell, or rows of a
\* file that has no Persona column (the cell is Unset in every row).
SkippedCsvs ==
  UNION { { [k \in 1..n |-> [id |-> k, persona |-> cell[k]]] :
              cell \in [1..n -> RerunCells] } : n \in 0..MaxRerun }
  \cup { [k \in 1..n |-> [id |-> k, persona |-> Unset]] : n \in 1..MaxRerun }

\* df_skip.get("Persona", "") found the column.
HasPersonaColumn(skip) == \A k \in 1..Len(skip) : skip[k].persona # Unset

\* Line 73, for one row: ~ bool(str(cell).strip()). The text of NaN is "nan".
todo_mask(r) == Strip(PyStr(r.persona)) = <<>>

\* Lines 121-123: the inner function choose.
choose(new, old) == IF new \notin {NaN, None} /\ Strip(new) # <<>> THEN new ELSE old

\* Lines 117-127: the left merge of df_skip with the new rows on Prospect Id,
\* then choose over the new and the old Persona of every merged row.
rerun_merge(skip, formatted) ==
  LET hits(id) == SelectSeq(formatted, LAMBDA r : r.id = id)
      rowsOf(old) ==
        IF hits(old.id) = <<>> THEN << [id |-> old.id, persona |-> choose(NaN, old.persona)] >>
        ELSE [h \in 1..Len(hits(old.id)) |->
                [id |-> old.id, persona |-> choose(hits(old.id)[h].persona, old.persona)]]
      F[k \in 0..Len(skip)] == IF k = 0 THEN <<>> ELSE F[k - 1] \o rowsOf(skip[k])
  IN F[Len(skip)]

\* main after line 70: the skipped CSV was read.
RerunInit ==
  /\ df_skip \in SkippedCsvs
  /\ df_todo = <<>>
  /\ requests = <<>>
  /\ merged = <<>>
  /\ pc = "rerun_select"
  /\ df = <<>>
  /\ final_df = <<>>
  /\ skipped_df = <<>>
  /\ BatchIdle
  /\ StreamIdle
  /\ RowIdle
  /\ FuzzyIdle
  /\ ImportIdle
  /\ RunIdle
  /\ messages = <<>>
  /\ api_key = Unset
  /\ meta = Unset
  /\ now = 0
  /\ eta = Unset
  /\ poll_interval = 0
  /\ max_backoff = 0
  /\ hard_timeout_seconds = Missing
  /\ clock = 0
  /\ poll_backoff = 0
  /\ status = NoStatus
  /\ last_poll = "none"
  /\ slept = 0

\* Lines 73-77: the rows to run again; without any, main returns. The default
\* of df_skip.get is a text, which has no astype.
RerunSelect ==
  /\ pc = "rerun_select"
  /\ IF ~ HasPersonaColumn(df_skip)
     THEN /\ pc' = "AttributeError"
          /\ df_todo' = df_todo
     ELSE /\ df_todo' = SelectSeq(df_skip, todo_mask)
          /\ pc' = IF df_todo' = <<>> THEN "return" ELSE "rerun_create"
  /\ UNCHANGED << df, final_df, skipped_df, streamVars, batchVars, rowVars,
                  sessionVars, etaVars, pollVars, fuzzyVars, importVars, runVars,
                  df_skip, requests, merged >>

\* Lines 80-89: one request per row of df_todo, uploaded, and a batch created.
RerunCreate ==
  /\ pc = "rerun_create"
  /\ requests' = Append(requests, [k \in 1..Len(df_todo) |-> df_todo[k].id])
  /\ pc' = "rerun_poll"
  /\ UNCHANGED << df, final_df, skipped_df, streamVars, batchVars, rowVars,
                  sessionVars, etaVars, pollVars, fuzzyVars, importVars, runVars,
                  df_skip, df_todo, merged >>

\* Lines 91-94: poll_batch_until_done returns the metadata of a batch in a
\* terminal status; a batch that is not completed ends main with RuntimeError
\* after its metadata was saved as a checkpoint.
RerunPoll ==
  /\ pc = "rerun_poll"
  /\ \E s \in terminal_statuses :
       /\ meta' \in PolledMetas(s)
       /\ IF s # "completed"
          THEN /\ checkpoints' = Append(checkpoints, "meta")
               /\ pc' = "RuntimeError"
          ELSE /\ checkpoints' = checkpoints
               /\ pc' = "rerun_file"
  /\ UNCHANGED << df, final_df, skipped_df, streamVars, batchVars, rowVars,
                  sessionVars, now, eta, pollVars, fuzzyVars, importVars, downloads,
                  rerunVars >>

\* Lines 97-101: without an output file id (not out_file) main ends with
\* RuntimeError;
\* otherwise the file is downloaded and saved as a checkpoint. The file
\* answers the requests that were sent.
RerunDownload ==
  /\ pc = "rerun_file"
  /\ IF out_file(meta) \in {None, <<>>}
     THEN /\ pc' = "RuntimeError"
          /\ UNCHANGED << jsonl_output, checkpoints, downloads >>
     ELSE /\ downloads' = Append(downloads, out_file(meta))
          /\ jsonl_output' \in { OutputLines(requests[1], answer) :
                                   answer \in [1..Len(requests[1]) -> BatchAnswers] }
          /\ checkpoints' = Append(checkpoints, "output")
          /\ pc' = "rerun_parse"
  /\ UNCHANGED << df, final_df, skipped_df, streamVars, result_map, errors_map, rows,
                  rowVars, sessionVars, etaVars, pollVars, fuzzyVars, importVars,
                  rerunVars >>

\* Lines 104-114: the two maps and the rows read from the results map, or an
\* exception leaves main.
RerunParse ==
  /\ pc = "rerun_parse"
  /\ LET parsed == parse_batch_output_jsonl(jsonl_output)
         got == extract_rows(parsed.out, parsed.errors)
     IN IF parsed.exc # "none"
        THEN /\ UNCHANGED << result_map, errors_map, rows >>
             /\ pc' = parsed.exc
        ELSE /\ result_map' = parsed.out
             /\ errors_map' = got.errors
             /\ rows' = got.rows
             /\ pc' = IF got.exc = "none" THEN "rerun_merge" ELSE got.exc
  /\ UNCHANGED << df, final_df, skipped_df, jsonl_output, streamVars, rowVars, clientVars >>

\* Lines 117-130: the merge and the choice between new and old values.
RerunMerge ==
  /\ pc = "rerun_merge"
  /\ merged' = rerun_merge(df_skip, OnProspectId(rows))
  /\ pc' = "rerun_split"
  /\ UNCHANGED << df, final_df, skipped_df, streamVars, batchVars, rowVars,
                  sessionVars, etaVars, pollVars, fuzzyVars, importVars, runVars,
                  df_skip, df_todo, requests >>

\* Lines 132-155: Skip Reason of every merged row, the split, de-duplication
\* and vocabulary filter of the accepted table, and the two files.
RerunSplit ==
  /\ pc = "rerun_split"
  /\ LET reasoned == WithBatchSkipReason(merged, errors_map) IN
       /\ final_df' = SelectSeq(drop_duplicates(SelectSeq(reasoned, LAMBDA r : r.reason = None)),
                                LAMBDA r : r.persona \in VALID_PERSONAS)
       /\ skipped_df' = SelectSeq(reasoned, LAMBDA r : r.reason # None)
  /\ pc' = "done"
  /\ UNCHANGED << df, streamVars, batchVars, rowVars, clientVars >>

NextRerun ==
  \/ RerunSelect
  \/ RerunCreate
  \/ RerunPoll
  \/ RerunDownload
  \/ RerunParse
  \/ RerunMerge
  \/ RerunSplit

SpecRerun == RerunInit /\ [][NextRerun]_vars

----------------------------------------------------------------------------
(* hubspot_client.py: import_classified_contacts and                       *)
(* _lookup_contact_ids_by_emails                                           *)

\* Line 792.
batch_size == 100

\* Largest table given to import_classified_contacts.
MaxContacts == 2

\* Cells of the table: an Email, missing or written in two ways; a Persona,
\* missing or there; a Prospect Id, missing, blank or there.
EmailCells == { NaN, <<"a","@","x">>, <<"A","@","x">> }
PersonaCellsOfImport == { NaN, <<"D","a","t","a"," ","U","s","e","r">> }
ProspectIdCells == { NaN, <<" ">>, <<"7">> }

ContactRows(idCells) ==
  { [email |-> e, persona |-> q, prospect_id |-> d] :
      e \in EmailCells, q \in PersonaCellsOfImport, d \in idCells }

\* pd.notna
NotNa(v) == v # NaN /\ v # None

\* Line 784: the rows that have both Email and Persona.
df_clean == SelectSeq(df, LAMBDA r : NotNa(r.email) /\ NotNa(r.persona))

\* Lines 803-809: the row carries a usable Prospect Id.
HasProspectId(r) ==
  /\ has_prospect_id
  /\ NotNa(r.prospect_id)
  /\ Strip(PyStr(r.prospect_id)) # <<>>

\* What the contact search answers for one email: no result, an error, the
\* contact under the searched address in lower case, or a contact whose
\* primary address is another one.
LookupOutcomes == { "none", "error", "found", "foundOther" }

PrimaryAddress == <<"p","@","x">>
FoundContactId == <<"9">>

\* Lines 703-716 of _lookup_contact_ids_by_emails for one email.
Looked(map, email, outcome) ==
  IF outcome \in {"none", "error"} THEN map
  ELSE LET found_email == IF outcome = "found" THEN Lower(email) ELSE PrimaryAddress
           first == DictSet(map, Lower(found_email), FoundContactId)
       IN IF Lower(found_email) # Lower(email)
          THEN DictSet(first, Lower(email), FoundContactId)
          ELSE first

\* Lines 836-857: the contacts to update, those with an id first.
all_inputs ==
  [k \in 1..Len(contacts_with_id) |->
     [contact_id |-> Strip(PyStr(contacts_with_id[k].prospect_id)), row |-> contacts_with_id[k]]]
  \o [k \in 1..Len(SelectSeq(contacts_needing_lookup,
                             LAMBDA r : DictHas(email_to_id, Lower(Strip(PyStr(r.email)))))) |->
        LET r == SelectSeq(contacts_needing_lookup,
                           LAMBDA t : DictHas(email_to_id, Lower(Strip(PyStr(t.email)))))[k]
        IN [contact_id |-> DictGet(email_to_id, Lower(Strip(PyStr(r.email))), <<>>), row |-> r]]

\* hubspot_persona_mapping.json beside the module (line 21): absent, without
\* a mapping, with the mapping of the persona, with the same under a name in
\* lower case, or with the mapping of another persona.
MappingFiles ==
  { [exists |-> FALSE],
    [exists |-> TRUE, persona_mapping |-> <<>>],
    [exists |-> TRUE, persona_mapping |-> << <<<<"D","a","t","a"," ","U","s","e","r">>, <<"p","e","r","s","o","n","a","_","5">>>> >>],
    [exists |-> TRUE, persona_mapping |-> << <<<<"d","a","t","a"," ","u","s","e","r">>, <<"p","e","r","s","o","n","a","_","5">>>> >>],
    [exists |-> TRUE, persona_mapping |-> << <<<<"A","p","p","l","i","c","a","t","i","o","n"," ","D","e","v","e","l","o","p","e","r">>, <<"p","e","r","s","o","n","a","_","1">>>> >>] }

\* _load_persona_mapping (lines 45-76) raises RuntimeError for a file that is
\* absent or holds no mapping.
Loadable(file) == file.exists /\ file.persona_mapping # <<>>

\* Lines 98-106 of map_persona_to_hubspot_enum: the value of the exact name,
\* else of the first name that is the same but for case, else the persona.
MappedPersona(mapping, persona_clean) ==
  IF DictHas(mapping, persona_clean) THEN DictGet(mapping, persona_clean, <<>>)
  ELSE IF \E k \in 1..Len(mapping) : Lower(mapping[k][1]) = Lower(persona_clean)
    THEN mapping[CHOOSE k \in 1..Len(mapping) :
                   /\ Lower(mapping[k][1]) = Lower(persona_clean)
                   /\ \A h \in 1..(k - 1) : Lower(mapping[h][1]) # Lower(persona_clean)][2]
  ELSE persona_clean

\* map_persona_to_hubspot_enum (lines 79-111): RuntimeError when the mapping
\* cannot be loaded; its text goes on with the text of the error of
\* _load_persona_mapping, which names the path of the file.
map_persona_to_hubspot_enum(persona, file) ==
  IF Loadable(file) THEN Return(MappedPersona(file.persona_mapping, Strip(PyStr(persona))))
  ELSE Raise("RuntimeError", <<"C","a","n","n","o","t"," ","m","a","p"," ","p","e","r","s","o","n","a"," ","'">> \o Strip(PyStr(persona))
                          \o <<"'"," ","t","o"," ","H","u","b","s","p","o","t"," ","e","n","u","m",":"," ">>)

\* What the update request of a batch gives: the contacts are updated
\* (kind "ok"), requests.post raises an exception that is no HTTPError (kind
\* "transport"), or raise_for_status raises the HTTPError of a status, whose
\* response has the text of a body.
UpdateFailed(status_code, text) == [kind |-> "http", status |-> status_code, text |-> text]

\* Bodies of a refused update: the error of HubSpot that names the missing
\* scopes, the same error without scopes and with null for its context, an
\* object whose errors are null or texts, a list, null, and a page that is
\* no JSON.
ScopesBody == <<"{","\"","s","t","a","t","u","s","\"",":"," ","\"","e","r","r","o","r","\"",","," ","\"","m","e","s","s","a","g","e","\"",":"," ","\"","m","i","s","s","i","n","g"," ","s","c","o","p","e","s","\"",","," ","\"","e","r","r","o","r","s","\"",":"," ","[","{","\"","m","e","s","s","a","g","e","\"",":"," ","\"","m","\"",","," ","\"","c","o","n","t","e","x","t","\"",":"," ","{","\"","r","e","q","u","i","r","e","d","G","r","a","n","u","l","a","r","S","c","o","p","e","s","\"",":"," ","[","\"","c","r","m",".","o","b","j","e","c","t","s",".","c","o","n","t","a","c","t","s",".","w","r","i","t","e","\"","]","}","}","]","}">>

UpdateBodies ==
  { ScopesBody,
    <<"{","\"","s","t","a","t","u","s","\"",":"," ","\"","e","r","r","o","r","\"",","," ","\"","e","r","r","o","r","s","\"",":"," ","[","{","\"","m","e","s","s","a","g","e","\"",":"," ","\"","m","\"","}","]","}">>,
    <<"{","\"","e","r","r","o","r","s","\"",":"," ","[","{","\"","m","e","s","s","a","g","e","\"",":"," ","\"","m","\"",","," ","\"","c","o","n","t","e","x","t","\"",":"," ","n","u","l","l","}","]","}">>,
    <<"{","\"","e","r","r","o","r","s","\"",":"," ","n","u","l","l","}">>,
    <<"{","\"","e","r","r","o","r","s","\"",":"," ","[","\"","f","o","r","b","i","d","d","e","n","\"","]","}">>,
    <<"[","]">>,
    <<"n","u","l","l">>,
    <<"F","o","r","b","i","d","d","e","n">> }

UpdateAnswers ==
  { [kind |-> "ok"], [kind |-> "transport"] }
    \cup { UpdateFailed(status_code, text) : status_code \in {403, 500}, text \in UpdateBodies }

RequiredGranularScopes == <<"r","e","q","u","i","r","e","d","G","r","a","n","u","l","a","r","S","c","o","p","e","s">>

\* r when it is an exception, else the value b
Gives(r, b) == IF r.ok THEN Return(b) ELSE r

\* Lines 929-933: required_scopes = error["context"]["requiredGranularScopes"]
\* and the loop over it; TRUE when the scopes were printed.
ScopesListed(scopes) == IF scopes.ok THEN Gives(Iterated(scopes.v), TRUE) ELSE scopes

ScopesOf(error) ==
  ScopesListed(Path(Return(error), << PyText(<<"c","o","n","t","e","x","t">>), PyText(RequiredGranularScopes) >>, 1))

\* Line 928 for an error and what error.get("context", {}) gave: TRUE when
\* the error names the scopes and the loop is left (line 941), FALSE when it
\* does not, or the exception raised.
NamesScopes(error, named) ==
  IF ~named.ok THEN named
  ELSE IF named.v THEN ScopesOf(error)
  ELSE Return(FALSE)

ErrorChecked(error, context) ==
  IF ~context.ok THEN context
  ELSE NamesScopes(error, NameIn(RequiredGranularScopes, context.v))

RECURSIVE ScopeCheck(_, _)

CheckedFrom(errors, k, checked) ==
  IF ~checked.ok THEN checked
  ELSE IF checked.v THEN Return(PyNone)
  ELSE ScopeCheck(errors, k + 1)

\* Lines 927-941: the loop over errors from its k-th item on.
ScopeCheck(errors, k) ==
  IF k > Len(errors) THEN Return(PyNone)
  ELSE CheckedFrom(errors, k, ErrorChecked(errors[k], Get(errors[k], <<"c","o","n","t","e","x","t">>, PyDict(<<>>))))

ErrorsChecked(errors) == IF errors.ok THEN ScopeCheck(errors.v, 1) ELSE errors

\* Lines 926-927: errors = error_detail.get("errors", []) and its iteration.
ScopesChecked(errors) == IF errors.ok THEN ErrorsChecked(Iterated(errors.v)) ELSE errors

\* Lines 919-941 for a status and the value e.response.json() gave.
DetailChecked(status_code, error_detail) ==
  IF ~error_detail.ok THEN error_detail
  ELSE IF status_code # 403 THEN Return(PyNone)
  ELSE ScopesChecked(Get(error_detail.v, <<"e","r","r","o","r","s">>, PyList(<<>>)))

\* Line 942: except (ValueError, KeyError); a JSONDecodeError is a ValueError.
HandlerCaught(r) ==
  IF ~r.ok /\ r.exc \in {"ValueError", "JSONDecodeError", "KeyError"} THEN Return(PyNone) ELSE r

\* Lines 909-948 for what the update request gave: Return when the loop
\* goes on to the next batch, or the exception that leaves the handler of
\* HTTPError and with it import_classified_contacts.
UpdateOutcome(answer) ==
  IF answer.kind # "http" THEN Return(PyNone)
  ELSE HandlerCaught(DetailChecked(answer.status, json_loads(PyText(answer.text))))

\* The outcomes of the checked answers, computed once.
UpdateOutcomes == { <<answer, UpdateOutcome(answer)>> : answer \in UpdateAnswers }

ImportInit ==
  /\ has_prospect_id \in BOOLEAN
  /\ df \in UNION { [1..n -> ContactRows(IF has_prospect_id THEN ProspectIdCells ELSE {NaN})] :
                      n \in 0..MaxContacts }
  /\ contacts_with_id = <<>>
  /\ contacts_needing_lookup = <<>>
  /\ emails = {}
  /\ email_to_id = <<>>
  /\ update_inputs = <<>>
  /\ batch_i = 0
  /\ success_count = 0
  /\ failed_count = 0
  /\ not_found_count = 0
  /\ pc = "import"
  /\ final_df = <<>>
  /\ skipped_df = <<>>
  /\ StreamIdle
  /\ BatchIdle
  /\ RowIdle
  /\ FuzzyIdle
  /\ RunIdle
  /\ RerunIdle
  /\ messages = <<>>
  /\ api_key = Unset
  /\ meta = Unset /\ now = 0 /\ eta = Unset
  /\ poll_interval = 0 /\ max_backoff = 0 /\ hard_timeout_seconds = Missing
  /\ clock = 0 /\ poll_backoff = 0 /\ status = NoStatus /\ last_poll = "none" /\ slept = 0

\* Lines 759-831: the checks, the split of the rows and the list of unique
\* emails to search.
ImportSplit ==
  /\ pc = "import"
  /\ IF df = <<>> \/ df_clean = <<>>
     THEN /\ pc' = "ValueError"
          /\ UNCHANGED << contacts_with_id, contacts_needing_lookup, emails >>
     ELSE /\ contacts_with_id' = SelectSeq(df_clean, HasProspectId)
          /\ contacts_needing_lookup' = SelectSeq(df_clean, LAMBDA r : ~HasProspectId(r))
          /\ emails' = { Strip(PyStr(contacts_needing_lookup'[k].email)) :
                           k \in 1..Len(contacts_needing_lookup') }
          /\ pc' = "import_lookup"
  /\ UNCHANGED << df, final_df, skipped_df, streamVars, batchVars, rowVars,
                  sessionVars, etaVars, pollVars, fuzzyVars, runVars, rerunVars,
                  has_prospect_id, email_to_id, update_inputs, batch_i,
                  success_count, failed_count, not_found_count >>

\* One turn of the loop of _lookup_contact_ids_by_emails (lines 681-731); the
\* list of unique emails comes from a set, in any order.
ImportLookup ==
  /\ pc = "import_lookup"
  /\ emails # {}
  /\ \E email \in emails, outcome \in LookupOutcomes :
       /\ emails' = emails \ {email}
       /\ email_to_id' = Looked(email_to_id, email, outcome)
  /\ UNCHANGED << df, pc, final_df, skipped_df, streamVars, batchVars, rowVars,
                  sessionVars, etaVars, pollVars, fuzzyVars, runVars, rerunVars,
                  has_prospect_id, contacts_with_id, contacts_needing_lookup,
                  update_inputs, batch_i, success_count, failed_count, not_found_count >>

\* Lines 836-892: the update payloads, each with the persona as
\* map_persona_to_hubspot_enum gives it under persona_property; without any
\* contact to update the counts are returned, and without a mapping that can
\* be loaded line 873 raises RuntimeError for the first contact.
ImportBuild ==
  /\ pc = "import_lookup"
  /\ emails = {}
  /\ IF all_inputs = <<>>
     THEN /\ not_found_count' = Len(contacts_with_id) + Len(contacts_needing_lookup)
          /\ update_inputs' = <<>>
          /\ pc' = "import_returned"
     ELSE \E file \in MappingFiles :
            /\ update_inputs' =
                 IF Loadable(file)
                 THEN [k \in 1..Len(all_inputs) |->
                         [id |-> all_inputs[k].contact_id,
                          properties |->
                            [hs_persona |->
                               map_persona_to_hubspot_enum(
                                 Strip(PyStr(all_inputs[k].row.persona)), file).v]]]
                 ELSE <<>>
            /\ not_found_count' = not_found_count
            /\ pc' = IF Loadable(file) THEN "import_batch"
                     ELSE map_persona_to_hubspot_enum(
                            Strip(PyStr(all_inputs[1].row.persona)), file).exc
  /\ batch_i' = 0
  /\ UNCHANGED << df, final_df, skipped_df, streamVars, batchVars, rowVars,
                  sessionVars, etaVars, pollVars, fuzzyVars, runVars, rerunVars,
                  has_prospect_id, contacts_with_id, contacts_needing_lookup, emails,
                  email_to_id, success_count, failed_count >>

\* Lines 904-948: one turn of the loop over the update batches.  The batch
\* is counted as updated, or as failed when the request raises; a failed
\* update whose body makes the handler of HTTPError raise ends the import
\* with that exception after the batch was counted, and no counts are
\* returned.
ImportBatch ==
  /\ pc = "import_batch"
  /\ batch_i < Len(update_inputs)
  /\ \E answer \in UpdateAnswers :
       /\ success_count' =
            IF answer.kind = "ok"
            THEN success_count + Len(SubSeq(update_inputs, batch_i + 1,
                                            Min(batch_i + batch_size, Len(update_inputs))))
            ELSE success_count
       /\ failed_count' =
            IF answer.kind = "ok" THEN failed_count
            ELSE failed_count + Len(SubSeq(update_inputs, batch_i + 1,
                                           Min(batch_i + batch_size, Len(update_inputs))))
       /\ IF Lookup(UpdateOutcomes, answer).ok
          THEN /\ batch_i' = batch_i + batch_size
               /\ pc' = pc
          ELSE /\ batch_i' = batch_i
               /\ pc' = Lookup(UpdateOutcomes, answer).exc
  /\ UNCHANGED << df, final_df, skipped_df, streamVars, batchVars, rowVars,
                  sessionVars, etaVars, pollVars, fuzzyVars, runVars, rerunVars,
                  has_prospect_id, contacts_with_id, contacts_needing_lookup, emails,
                  email_to_id, update_inputs, not_found_count >>

\* Lines 950-966: the counts are returned.
ImportReturn ==
  /\ pc = "import_batch"
  /\ batch_i >= Len(update_inputs)
  /\ not_found_count' = Len(contacts_needing_lookup) - Len(email_to_id)
  /\ pc' = "import_returned"
  /\ UNCHANGED << df, final_df, skipped_df, streamVars, batchVars, rowVars,
                  sessionVars, etaVars, pollVars, fuzzyVars, runVars, rerunVars,
                  has_prospect_id, contacts_with_id, contacts_needing_lookup, emails,
                  email_to_id, update_inputs, batch_i, success_count, failed_count >>

NextImport ==
  \/ ImportSplit
  \/ ImportLookup
  \/ ImportBuild
  \/ ImportBatch
  \/ ImportReturn

SpecImport == ImportInit /\ [][NextImport]_vars

----------------------------------------------------------------------------
(* The checked runs of streaming_enricher.main *)

\* Runs over small tables with every kind of reply; a failing call times out
\* or gets a body it cannot read.
Next ==
  \/ StartPass
  \/ ExitPasses
  \/ Dispatch
  \/ CallReturns(ReplyShapes, ReplyPersonas)
  \/ CallRaises({TimedOut, NotJson}, {0})
  \/ CallBreaks({NoChoices})
  \/ RetriesExhausted
  \/ EndPass
  \/ Finalize
  \/ Save

Init == MainInit(1..FewRows)

Spec == Init /\ [][Next]_vars

\* Runs over a table of several chunks; every reply names a stranger, so that
\* all rows stay for the next pass, and a failing call times out, loses its
\* connection or hits the rate limit.
NextChunks ==
  \/ StartPass
  \/ ExitPasses
  \/ Dispatch
  \/ CallReturns({"all"}, {Foo})
  \/ FailedCalls(messages) < MaxFailures
       /\ CallRaises({TimedOut, ConnectionReset, RateLimited}, {0})
  \/ CallBreaks({NoChoices})
  \/ RetriesExhausted
  \/ EndPass
  \/ Finalize
  \/ Save

InitChunks == MainInit({MaxRows})

SpecChunks == InitChunks /\ [][NextChunks]_vars

\* Runs over one row with every kind of failure and jitter.
NextRetry ==
  \/ StartPass
  \/ ExitPasses
  \/ Dispatch
  \/ CallReturns({"all"}, {DataUser})
  \/ CallRaises(FailedResponses \cup BrokenResponses, 0..JitterSteps)
  \/ CallBreaks(BrokenResponses)
  \/ RetriesExhausted
  \/ EndPass
  \/ Finalize
  \/ Save

InitRetry == MainInit({1})

SpecRetry == InitRetry /\ [][NextRetry]_vars

\* Runs over a table of several chunks in which a failing call hits the rate
\* limit or times out, a reply names a member of the vocabulary or a
\* stranger, and a reply may come without choices.  A run ends before
\* MAX_PASSES passes when every row got a valid persona, and uses all passes
\* otherwise.
NextLimit ==
  \/ StartPass
  \/ ExitPasses
  \/ Dispatch
  \/ CallReturns({"all"}, {DataUser, Foo})
  \/ FailedCalls(messages) < MaxRateLimits /\ CallRaises({RateLimited, TimedOut}, {0})
  \/ CallBreaks({NoChoices})
  \/ RetriesExhausted
  \/ EndPass
  \/ Finalize
  \/ Save

InitLimit == MainInit({MaxRows})

SpecLimit == InitLimit /\ [][NextLimit]_vars

\* Runs over small tables in which a reply may carry a row nobody asked for.
NextStray ==
  \/ StartPass
  \/ ExitPasses
  \/ Dispatch
  \/ CallReturns({"all"} \cup StrayShapes, {DataUser, Foo})
  \/ CallRaises({TimedOut}, {0})
  \/ RetriesExhausted
  \/ EndPass
  \/ Finalize
  \/ Save

InitStray == MainInit(1..FewRows)

SpecStray == InitStray /\ [][NextStray]_vars

\* Runs over one row with every kind of failure, among them that server error.
NextSignal ==
  \/ StartPass
  \/ ExitPasses
  \/ Dispatch
  \/ CallReturns({"all"}, {DataUser})
  \/ CallRaises(FailedResponses \cup BrokenResponses \cup {ServerErrorWithRequestId}, {0})
  \/ CallBreaks(BrokenResponses)
  \/ RetriesExhausted
  \/ EndPass
  \/ Finalize
  \/ Save

InitSignal == MainInit({1})

SpecSignal == InitSignal /\ [][NextSignal]_vars

\* An attempt of call_with_retries ends: the call returns or raises.
AttemptEnds ==
  /\ pc = "call"
  /\ attempt < MAX_RETRIES
  /\ attempt' = attempt + 1

\* The chunk loop of a pass is left and the pass counted.
PassEnds ==
  /\ pc = "dispatch"
  /\ i >= Len(df_pass)
  /\ p' = p + 1

\* The same runs as SpecLimit when every call returns or raises and main
\* goes on from each statement to the next.
SpecLimitFair ==
  /\ SpecLimit
  /\ WF_attempt(AttemptEnds)
  /\ WF_p(PassEnds)
  /\ WF_vars(StartPass) /\ WF_vars(ExitPasses) /\ WF_vars(Dispatch)
  /\ WF_vars(RetriesExhausted)

----------------------------------------------------------------------------
(* Properties *)

\* How often a Prospect Id occurs in a table.
Occurrences(table, id) == Cardinality({ k \in 1..Len(table) : table[k].id = id })

\* main has computed final_df and skipped_df (streaming_enricher.main).
TablesComputed == pc \in {"save", "save_outputs: TypeError"}

\* C1: after the final parse, merge, fuzzy matching and de-duplication of the
\* streaming pipeline, every input Prospect Id occurs exactly once in the
\* accepted and the skipped table taken together.
C1_EachIdExactlyOnce ==
  TablesComputed =>
    \A k \in 1..Len(df) :
      Occurrences(final_df, df[k]) + Occurrences(skipped_df, df[k]) = 1

\* The response member of a decoded line, {} without one.
ResponseOf(obj) == DictGet(obj.pairs, <<"r","e","s","p","o","n","s","e">>, PyDict(<<>>))

\* The decoded line is a 200 response whose body carries a message content.
HasContent(obj) ==
  /\ DictGet(ResponseOf(obj).pairs, <<"s","t","a","t","u","s","_","c","o","d","e">>, Zero).t = "int"
  /\ IntText(DictGet(ResponseOf(obj).pairs, <<"s","t","a","t","u","s","_","c","o","d","e">>, Zero)) = <<"2","0","0">>
  /\ ContentOf(ResponseOf(obj)).ok

\* The id of a decoded line.
CustomIdOf(obj) == PyStrOf(DictGet(obj.pairs, <<"c","u","s","t","o","m","_","i","d">>, PyText(<<>>)))

\* The lines of the output file that are not blank.
OutputRecords == SelectSeq(splitlines(jsonl_output), LAMBDA line : Strip(line) # <<>>)

\* Every line of the output file is a JSON object.
LinesAreObjects ==
  \A k \in 1..Len(OutputRecords) :
    json_loads(PyText(OutputRecords[k])).ok /\ json_loads(PyText(OutputRecords[k])).v.t = "dict"

\* batch_enricher.main has ended: the files are written, or an exception left it.
BatchEnded ==
  pc \in {"done", "TypeError", "AttributeError", "JSONDecodeError", "ValueError", "OverflowError"}

\* Every line of the output file is a JSON object whose response is an
\* object with a number as its status: a 200 or a non-200 response.
LinesAreResponses ==
  /\ LinesAreObjects
  /\ \A k \in 1..Len(OutputRecords) :
       LET resp == ResponseOf(json_loads(PyText(OutputRecords[k])).v) IN
         /\ resp.t = "dict"
         /\ DictGet(resp.pairs, <<"s","t","a","t","u","s","_","c","o","d","e">>, PyNone).t = "int"

\* C2: for every completed batch output that holds 200 and non-200
\* responses, every input row of the batch pipeline ends in exactly one of
\* the accepted and the skipped table, and every skipped row carries a
\* non-empty skip reason.
C2_BatchRowsPartitioned ==
  (BatchEnded /\ LinesAreResponses) =>
    /\ \A k \in 1..Len(df) :
         Occurrences(final_df, df[k]) + Occurrences(skipped_df, df[k]) = 1
    /\ \A k \in 1..Len(skipped_df) : skipped_df[k].reason \notin {None, NaN, <<>>}

\* determine_skip_reason has returned for a row whose Persona is a text.
ReturnedForText == pc = "row_done" /\ row \notin {NaN, None}

\* C3: determine_skip_reason accepts a row whose Persona text is exactly
\* equal to a member of VALID_PERSONAS, and every other non-empty text v gets
\* exactly the reason "Invalid persona: v".
C3_ExactMembershipOnly ==
  ReturnedForText =>
    /\ row \in VALID_PERSONAS => reason = None
    /\ row \notin VALID_PERSONAS /\ row # <<>>
         => reason = InvalidPersonaColon \o <<" ">> \o row

\* The Prospect Ids for which some recorded reply carries a row.
AnsweredIds ==
  UNION { { all_results[k][h].id : h \in 1..Len(all_results[k]) } :
          k \in 1..Len(all_results) }

\* C4: every row id that is still in remaining_ids when the pass loop has
\* ended because it never got a reply (its chunk's calls failed, or the
\* replies left it out) is in the skipped table with the skip reason
\* "No LLM response".
C4_RemainingSkippedNoResponse ==
  TablesComputed =>
    \A id \in remaining_ids \ AnsweredIds :
      \E k \in 1..Len(skipped_df) :
        skipped_df[k].id = id /\ skipped_df[k].reason = NoLLMResponse

\* C5: every change of the chunk size inside call_with_retries follows a
\* rate-limit failure and sets it to max(MIN_CHUNK, previous // 2); the chunk
\* size at the start of a pass never exceeds MAX_CHUNK.
C5_ShrinkHalvesWithFloor ==
  /\ [][ (pc = "call" /\ pc' = "call" /\ local_chunk' # local_chunk)
           => /\ IsRateLimit(last_err'.msg)
              /\ local_chunk' = (IF local_chunk \div 2 >= MIN_CHUNK
                                 THEN local_chunk \div 2 ELSE MIN_CHUNK) ]_vars
  /\ [](pc = "pass_head" => current_chunk <= MAX_CHUNK)

\* C5, witness: a rate limit shrank a chunk size of 15 to the floor.
C5_ShrunkToFloor ==
  /\ pc = "call"
  /\ IsRateLimit(last_err.msg)
  /\ current_chunk = 15
  /\ local_chunk = MIN_CHUNK

\* C6: the chunk size, in main and inside call_with_retries, is always
\* within MIN_CHUNK..MAX_CHUNK; at MIN_CHUNK a failed attempt leaves it at
\* MIN_CHUNK, and when the retries are used up there the chunk's rows are
\* recorded as failed and main goes on.
C6_ChunkSizeWithinBounds ==
  /\ [](/\ MIN_CHUNK <= current_chunk /\ current_chunk <= MAX_CHUNK
        /\ MIN_CHUNK <= local_chunk /\ local_chunk <= MAX_CHUNK)
  /\ [][ (pc = "call" /\ local_chunk = MIN_CHUNK /\ attempt < MAX_RETRIES)
           => local_chunk' = MIN_CHUNK ]_vars
  /\ [][ (pc = "call" /\ local_chunk = MIN_CHUNK /\ attempt = MAX_RETRIES)
           => /\ { df_pass[k] : k \in (i + 1)..end_i } \subseteq failed_ids'
              /\ pc' = "dispatch" ]_vars

\* C6, witness: at MIN_CHUNK every attempt hit the rate limit, and the size
\* stayed at MIN_CHUNK.
C6_RateLimitedAtFloor ==
  /\ pc = "call"
  /\ attempt = MAX_RETRIES
  /\ IsRateLimit(last_err.msg)
  /\ current_chunk = MIN_CHUNK
  /\ local_chunk = MIN_CHUNK

\* C7: the size to which the retry mechanism reduced the chunk size during
\* one chunk's call, whether the call succeeded or used up its retries, is
\* the size with which the next chunk of the pass is sliced; and the size
\* used for slicing never increases within a pass.
C7_ReducedSizeSlicesNextChunk ==
  /\ [][ (pc = "dispatch" /\ pc' = "call" /\ i > 0)
           => end_i' = (IF i + local_chunk <= Len(df_pass)
                        THEN i + local_chunk ELSE Len(df_pass)) ]_vars
  /\ [][ (pc # "pass_head" /\ pc' # "pass_head") => current_chunk' <= current_chunk ]_vars

\* The last failed attempt's message carries no retry hint.
NoServerHint == ~Contains(last_err.msg, TryAgainIn)

\* call_with_retries has just slept after failed attempt number attempt - 1.
JustFailed == pc = "call" /\ attempt > 0

\* min(MAX_BACKOFF, INITIAL_BACKOFF * 2^k)
CappedExponential(k) ==
  IF INITIAL_BACKOFF * 2^k <= MAX_BACKOFF
  THEN Seconds(INITIAL_BACKOFF * 2^k)
  ELSE Seconds(MAX_BACKOFF)

\* C8: without a server retry hint in the failure message, the wait slept
\* after failed attempt k is at least min(MAX_BACKOFF, INITIAL_BACKOFF * 2^k).
C8_WaitAtLeastExponential ==
  JustFailed /\ NoServerHint => FloatLeq(CappedExponential(attempt - 1), sleep_for)

\* C8, witness: the third attempt failed without a hint and the wait was 8 s.
C8_ThirdAttemptWaitsEight ==
  /\ JustFailed
  /\ NoServerHint
  /\ attempt = 3
  /\ sleep_for = Seconds(8)

\* The texts that [0-9]+(?:\.[0-9]+)? matches in full: digits, or digits, a
\* point and digits.
IsSecondsText(u) ==
  /\ u # <<>>
  /\ \A k \in 1..Len(u) : u[k] \in AsciiDigits \cup {"."}
  /\ Cardinality({ k \in 1..Len(u) : u[k] = "." }) <= 1
  /\ u[1] # "." /\ u[Len(u)] # "."

\* The number texts u for which "try again in ", u and "s" stand in msg from
\* position k on.
HintsAt(msg, k) ==
  IF SubSeq(msg, k, k + Len(TryAgainIn) - 1) # TryAgainIn THEN {}
  ELSE { u \in { SubSeq(msg, k + Len(TryAgainIn), b) :
                  b \in (k + Len(TryAgainIn))..(Len(msg) - 1) } :
           IsSecondsText(u) /\ msg[k + Len(TryAgainIn) + Len(u)] = "s" }

\* The decimal number that a number text writes, as a float.
SecondsOfText(u, points) ==
  IF points = {} THEN FloatOfDecimal(FALSE, u, <<>>, 0)
  ELSE FloatOfDecimal(FALSE, SubSeq(u, 1, Least(points) - 1),
                      SubSeq(u, Least(points) + 1, Len(u)), 0)

\* The server's hint in a failure message: the number of the leftmost
\* "try again in <n>s", and 0 in a message without one.
HintedSeconds(msg) ==
  LET at == { k \in 1..(Len(msg) - Len(TryAgainIn)) : HintsAt(msg, k) # {} } IN
  IF at = {} THEN Seconds(0)
  ELSE LET u == CHOOSE t \in HintsAt(msg, Least(at)) : TRUE
       IN SecondsOfText(u, { k \in 1..Len(u) : u[k] = "." })

\* C9: on every failed attempt the wait is exactly
\* max(hint, min(MAX_BACKOFF, INITIAL_BACKOFF * 2^attempt + jitter)), with
\* jitter in [0, 1] and hint the number of seconds read from the leftmost
\* "try again in <n>s" of the failure message (0 without one):
\* the cap applies to the sum of the exponential term and the jitter.
C9_WaitIsHintOrCappedSum ==
  JustFailed =>
    /\ FloatLeq(Seconds(0), jitter) /\ FloatLeq(jitter, Seconds(1))
    /\ server_wait = HintedSeconds(last_err.msg)
    /\ LET sum == FloatAdd(Seconds(INITIAL_BACKOFF * 2^(attempt - 1)), jitter)
           capped == IF FloatLeq(sum, Seconds(MAX_BACKOFF)) THEN sum
                     ELSE Seconds(MAX_BACKOFF)
       IN sleep_for = (IF FloatLeq(capped, server_wait) THEN server_wait ELSE capped)

\* C9, witness: the fifth attempt failed with the hint "try again in 2s" and
\* with jitter, and the wait was MAX_BACKOFF.
C9_HintBelowCappedSum ==
  /\ JustFailed
  /\ attempt = MAX_RETRIES
  /\ ~NoServerHint
  /\ server_wait = Seconds(2)
  /\ jitter # Seconds(0)
  /\ sleep_for = Seconds(MAX_BACKOFF)

\* C9 as stated: the wait is max(hint, min(MAX_BACKOFF, INITIAL_BACKOFF *
\* 2^attempt) + jitter), the jitter added on top of the capped term.
C9_JitterOnTopOfCap ==
  JustFailed =>
    LET sum == FloatAdd(CappedExponential(attempt - 1), jitter)
    IN sleep_for = (IF FloatLeq(sum, server_wait) THEN server_wait ELSE sum)

\* C10: a chunk gets at most MAX_RETRIES calls; when all of them failed, the
\* error of the last attempt is raised, exactly the chunk's Prospect Ids are
\* added to failed_ids, and main goes on after the chunk.
C10_ExhaustedChunkFails ==
  /\ [](attempt <= MAX_RETRIES)
  /\ [][ (pc = "call" /\ attempt = MAX_RETRIES)
           => /\ last_err.exc \in {"TimeoutError", "HTTPError", "ConnectionError"}
              /\ raised' = last_err
              /\ failed_ids' = failed_ids \cup { df_pass[k] : k \in (i + 1)..end_i }
              /\ i' = end_i
              /\ pc' = "dispatch" ]_vars

\* C10, witness: a chunk used up its retries, its rows are recorded as
\* failed, and main stands before the next chunk of the pass.
C10_GoesOnAfterFailedChunk ==
  /\ pc = "dispatch"
  /\ raised # NoErr
  /\ 0 < i /\ i < Len(df_pass)
  /\ failed_ids = { df_pass[k] : k \in 1..i }

\* max(MIN_CHUNK, size // 2)
HalvedOnce(size) == IF size \div 2 >= MIN_CHUNK THEN size \div 2 ELSE MIN_CHUNK

\* The chunk size after n halvings, each down to the floor.
RECURSIVE HalvedTimes(_, _)
HalvedTimes(size, n) == IF n = 0 THEN size ELSE HalvedTimes(HalvedOnce(size), n - 1)

\* The step in which an attempt of a call fails and is retried or given up.
AttemptFails == pc = "call" /\ pc' = "call" /\ attempt' = attempt + 1

\* The step in which a call returns its reply within MAX_RETRIES attempts.
CallSucceeds == pc = "call" /\ attempt < MAX_RETRIES /\ pc' = "dispatch"

\* The step in which a pass ends.
PassIsLeft == pc = "dispatch" /\ pc' = "pass_head"

\* The Prospect Ids of the reply recorded last.
LastReplyIds(results) ==
  { results[Len(results)][k].id : k \in 1..Len(results[Len(results)]) }

\* A call that succeeds adds no id to failed_ids, records its reply for the
\* rows of the chunk, hands the size that the rate-limited attempts left to
\* main, and main goes on after the chunk.
SucceedingCallIsRecorded ==
  [][ CallSucceeds
        => /\ failed_ids' = failed_ids
           /\ Len(all_results') = Len(all_results) + 1
           /\ LastReplyIds(all_results') = { df_pass[k] : k \in (i + 1)..end_i }
           /\ current_chunk' = local_chunk
           /\ i' = end_i ]_vars

\* Every reply row for the Prospect Id names a member of the vocabulary.
ValidlyAnswered(id) ==
  /\ id \in AnsweredIds
  /\ \A k \in 1..Len(all_results) : \A h \in 1..Len(all_results[k]) :
       all_results[k][h].id = id => all_results[k][h].persona \in VALID_PERSONAS

\* Every row whose replies name valid personas ends in the accepted table
\* and not in the skipped one.
ValidRowsAreAccepted ==
  [](TablesComputed =>
       \A id \in { df[k] : k \in 1..Len(df) } :
         ValidlyAnswered(id) => /\ Occurrences(final_df, id) = 1
                                /\ Occurrences(skipped_df, id) = 0)

\* C11: when a chunk's call hits the rate limit on one or more attempts and
\* then succeeds, no id of the chunk is added to failed_ids and the reply is
\* recorded.  Every failed attempt that is a rate limit halves the size of
\* the call down to MIN_CHUNK and every other failed attempt leaves it, so
\* the call holds the size of main halved once per rate-limited attempt; the
\* call that succeeds hands that size to main, and every chunk is sliced with
\* the size of main.  The size of main changes only when a call succeeds and
\* when a pass ends: it never grows, and the end of a pass halves it down to
\* MIN_CHUNK when rows remain and leaves it otherwise.  Every row whose
\* replies name valid personas ends in the accepted table and is not skipped.
C11_RateLimitedCallSucceeds ==
  /\ SucceedingCallIsRecorded
  /\ [][ AttemptFails
           => local_chunk' = (IF IsRateLimit(last_err'.msg) THEN HalvedOnce(local_chunk)
                              ELSE local_chunk) ]_vars
  /\ [](pc = "call" => \E n \in 0..attempt : local_chunk = HalvedTimes(current_chunk, n))
  /\ [][ (pc = "dispatch" /\ pc' = "call")
           => /\ local_chunk' = current_chunk
              /\ end_i' = (IF i + current_chunk <= Len(df_pass)
                           THEN i + current_chunk ELSE Len(df_pass)) ]_vars
  /\ [][ current_chunk' <= current_chunk ]_vars
  /\ [][ current_chunk' # current_chunk => CallSucceeds \/ PassIsLeft ]_vars
  /\ [][ PassIsLeft
           => current_chunk' = (IF remaining_ids' # {} THEN HalvedOnce(current_chunk)
                                ELSE current_chunk) ]_vars
  /\ ValidRowsAreAccepted

\* C11, witness: the one pass of the run was rate limited and then answered
\* validly; the halved size is the size of main, every row is accepted and
\* none skipped.
C11_AllAcceptedAfterRateLimit ==
  /\ TablesComputed
  /\ p = 2
  /\ current_chunk < MAX_CHUNK
  /\ IsRateLimit(last_err.msg)
  /\ Len(final_df) = Len(df)
  /\ skipped_df = <<>>

\* C11 as stated: a call that succeeds after rate limits adds no id to
\* failed_ids, its reply is recorded and the halved size handed to main;
\* that size is used for the remainder of processing, so that once a
\* rate-limited call has succeeded (in the first pass: the size of main is
\* below MAX_CHUNK) only a further call changes the size of main; and every
\* row whose replies name valid personas is accepted and not skipped.
C11_HalvedSizeIsKept ==
  /\ SucceedingCallIsRecorded
  /\ [][ (p = 1 /\ current_chunk < MAX_CHUNK /\ pc # "call")
           => current_chunk' = current_chunk ]_vars
  /\ ValidRowsAreAccepted

\* C12: the pass loop always ends, at line 221 or with the exception of a
\* call that nothing catches.  At most MAX_PASSES passes are run and
\* every pass is counted, no pass starts when remaining_ids is empty (the
\* loop is left then), every dispatched chunk holds at least one row and
\* moves the loop past it, and a chunk gets at most MAX_RETRIES calls.
C12_PassLoopTerminates ==
  /\ [](p <= MAX_PASSES + 1)
  /\ [][ (pc = "pass_head" /\ pc' = "dispatch") => (p <= MAX_PASSES /\ remaining_ids # {}) ]_vars
  /\ [][ (pc = "pass_head" /\ remaining_ids = {}) => pc' = "final" ]_vars
  /\ [][ (pc = "dispatch" /\ pc' = "pass_head") => p' = p + 1 ]_vars
  /\ [][ (pc = "dispatch" /\ pc' = "call") => (i < end_i' /\ end_i' <= Len(df_pass)) ]_vars
  /\ [][ (pc = "call" /\ pc' = "dispatch") => (i' = end_i /\ i' > i) ]_vars
  /\ [](attempt <= MAX_RETRIES)
  /\ <>(pc = "final" \/ pc \in Uncaught)

\* C12, witness: a chunk used up its retries, every row was classified by
\* the end of the second pass, and the pass loop ended without a third pass.
C12_EndsBeforeLastPass ==
  /\ pc = "final"
  /\ p = MAX_PASSES
  /\ remaining_ids = {}
  /\ raised # NoErr

\* C13: within a pass the chunks are cut from the pass's table one after
\* the other: the pass's table holds the remaining rows in input order, the
\* first chunk starts at row 0, a chunk is the non-empty slice [i, end_i) of
\* at most the current chunk size, the next chunk starts where it ended
\* whether its call succeeded or failed, and the pass ends only at the end
\* of the table; so every row of the pass is sent in exactly one chunk.
C13_ChunksTileThePass ==
  /\ [][ (pc = "pass_head" /\ pc' = "dispatch")
           => /\ i' = 0
              /\ df_pass' = SelectSeq(df, LAMBDA id : id \in remaining_ids) ]_vars
  /\ [][ (pc = "dispatch" /\ pc' = "call")
           => /\ i' = i
              /\ i < end_i'
              /\ end_i' <= Len(df_pass)
              /\ end_i' - i <= current_chunk
              /\ (end_i' - i < current_chunk => end_i' = Len(df_pass)) ]_vars
  /\ [][ pc = "call" => (df_pass' = df_pass /\ end_i' = end_i /\ i' \in {i, end_i}) ]_vars
  /\ [][ (pc = "call" /\ pc' = "dispatch") => i' = end_i ]_vars
  /\ [][ (pc = "dispatch" /\ pc' = "pass_head") => i = Len(df_pass) ]_vars

\* C13, witness: the first chunk of the pass was cut with size 15, a rate
\* limit reduced the size during its call, and the second chunk, cut with
\* MIN_CHUNK, is being sent; a third chunk is left.
C13_MiddleChunkRateLimited ==
  /\ pc = "call"
  /\ i = 15
  /\ current_chunk = MIN_CHUNK
  /\ end_i = i + MIN_CHUNK
  /\ end_i < Len(df_pass)

\* C14: the message list of a session only grows at its end, and it is the
\* system message followed by user and assistant messages in strict
\* alternation, whatever calls succeeded or failed.
C14_SystemThenAlternating ==
  /\ [][ /\ Len(messages') >= Len(messages)
         /\ SubSeq(messages', 1, Len(messages)) = messages ]_vars
  /\ [](/\ messages[1].role = "system"
        /\ \A k \in 2..Len(messages) :
             messages[k].role = (IF k % 2 = 0 THEN "user" ELSE "assistant"))

\* What the metadata says, read as _estimate_eta reads it.
MetaCompleted ==
  IF meta.request_counts.completed = Missing THEN 0 ELSE meta.request_counts.completed

MetaTotal ==
  IF meta.request_counts.total \notin {Missing, 0} THEN meta.request_counts.total
  ELSE MetaCompleted + (IF meta.request_counts.failed = Missing THEN 0
                        ELSE meta.request_counts.failed)

\* The time the work started: in_progress_at, else started_at; 0 counts as unset.
MetaStart ==
  IF meta.in_progress_at \notin {Missing, 0} THEN meta.in_progress_at
  ELSE IF meta.started_at \notin {Missing, 0} THEN meta.started_at
  ELSE Missing

\* C15: _estimate_eta reports no estimate (None) when the total request
\* count is 0, when the metadata has no start time, or when no request has
\* completed yet; in every other case it returns the non-negative estimate
\* remaining * elapsed / completed, with remaining = max(0, total - completed)
\* and elapsed = max(1, now - start), so an elapsed time of 0 counts as 1 s.
C15_EtaUnknownOrNonNegative ==
  pc = "eta_done" =>
    /\ eta.completed = MetaCompleted
    /\ eta.total = MetaTotal
    /\ (MetaTotal = 0 \/ MetaStart = Missing \/ MetaCompleted = 0) => eta.eta = NoEta
    /\ (MetaTotal > 0 /\ MetaStart # Missing /\ MetaCompleted > 0) =>
         /\ eta.eta # NoEta
         /\ eta.eta.den = MetaCompleted
         /\ eta.eta.num >= 0
         /\ eta.eta.num = (IF MetaTotal > MetaCompleted THEN MetaTotal - MetaCompleted ELSE 0)
                          * (IF now - MetaStart >= 1 THEN now - MetaStart ELSE 1)

\* C15, witness: the work started this very second, one of two requests has
\* completed, and the estimate is 1 s.
C15_EstimateWithClampedElapsed ==
  /\ pc = "eta_done"
  /\ MetaStart # Missing
  /\ now = MetaStart
  /\ eta.eta = [num |-> 1, den |-> 1]

\* C15 as stated: the estimate is unknown when the total is 0 or the elapsed
\* time since the start is 0, and a non-negative number whenever the total
\* and the elapsed time are both positive.
C15_UnknownOnlyForZeroTotalOrElapsed ==
  (pc = "eta_done" /\ MetaStart # Missing) =>
    /\ (MetaTotal = 0 \/ now - MetaStart = 0) => eta.eta = NoEta
    /\ (MetaTotal > 0 /\ now - MetaStart > 0) => (eta.eta # NoEta /\ eta.eta.num >= 0)

\* The step in which a status request is answered or raises.
StatusRequest == pc = "poll_request" /\ pc' # pc

\* C16: poll_batch_until_done returns only after a status request that was
\* answered with a terminal status (completed, failed, cancelled, also
\* spelled canceled); the first request answered with one returns at once,
\* and nothing is requested after the return.
C16_ReturnsOnFirstTerminalStatus ==
  /\ [](pc = "poll_returned" =>
          /\ last_poll = "ok"
          /\ status \in {"completed", "failed", "cancelled", "canceled"})
  /\ [][ pc' = "poll_returned" => StatusRequest ]_vars
  /\ [][ (StatusRequest /\ last_poll' = "ok"
          /\ status' \in {"completed", "failed", "cancelled", "canceled"})
           => pc' = "poll_returned" ]_vars
  /\ [][ (StatusRequest /\ last_poll' = "ok"
          /\ status' \in {"validating", "in_progress", "finalizing"})
           => pc' = "poll_check" ]_vars
  /\ [][ pc # "poll_returned" ]_vars

\* C16, witness: after polls that found the job running and polls that
\* failed, the job is found cancelled and the poller has returned.
C16_ReturnedCancelledLate ==
  /\ pc = "poll_returned"
  /\ status = "cancelled"
  /\ clock > poll_interval
  /\ poll_backoff > poll_interval

\* C17: the sleep after a transport error never exceeds max_backoff; after a
\* further error in a row it is twice the sleep before, up to max_backoff;
\* and after an answered poll the sleep is poll_interval again, also for the
\* first error that follows.
C17_BackoffDoublesUnderCap ==
  /\ [][ (StatusRequest /\ last_poll' = "error") => slept' <= max_backoff ]_vars
  /\ [][ (StatusRequest /\ last_poll = "error" /\ last_poll' = "error")
           => slept' = (IF 2 * slept <= max_backoff THEN 2 * slept ELSE max_backoff) ]_vars
  /\ [][ (StatusRequest /\ last_poll' = "ok" /\ pc' = "poll_check")
           => slept' = poll_interval ]_vars
  /\ [][ (StatusRequest /\ last_poll = "ok" /\ last_poll' = "error")
           => slept' = poll_interval ]_vars

\* C18: with a hard timeout set, the poller ends: it returns a terminal
\* status or raises TimeoutError; TimeoutError is raised only when the time
\* since the start exceeds the timeout, and no status request is made then.
C18_HardTimeoutAborts ==
  /\ hard_timeout_seconds # Missing => <>(pc \in {"TimeoutError", "poll_returned"})
  /\ [](pc = "poll_request" =>
          (hard_timeout_seconds = Missing \/ clock <= hard_timeout_seconds))
  /\ [](pc = "TimeoutError" =>
          (hard_timeout_seconds # Missing /\ clock > hard_timeout_seconds))
  /\ [][ pc # "TimeoutError" ]_vars

\* C18, witness: every poll failed or found the job running, and the poller
\* gave up with TimeoutError.
C18_GaveUpOnRunningJob ==
  /\ pc = "TimeoutError"
  /\ status = "in_progress"
  /\ last_poll = "error"

\* C19: when, without a hard timeout, the status requests fail from some
\* point on, the poller ends by raising the RequestException.
C19_PersistentErrorsAreRaised ==
  (hard_timeout_seconds = Missing /\ <>[](last_poll = "error"))
    => <>(pc = "RequestException")

\* C20: parse_batch_output_jsonl returns for every output file whose lines
\* are JSON objects, and the id of each line is then in exactly one map: the
\* results map when the line is a 200 response with a message content, the
\* errors map otherwise (another status, a missing or null response, a 200
\* body without choices).
C20_EveryLineInOneMap ==
  [][ (pc = "batch_parse" /\ LinesAreObjects) =>
        /\ pc' = "batch_extract"
        /\ \A k \in 1..Len(OutputRecords) :
             LET obj == json_loads(PyText(OutputRecords[k])).v IN
               /\ DictHas(result_map', CustomIdOf(obj)) <=> HasContent(obj)
               /\ DictHas(errors_map', CustomIdOf(obj)) <=> ~HasContent(obj) ]_vars

\* C21: once the pass loop of the streaming pipeline has finished, main
\* computes the two tables, and its call of save_outputs writes both files
\* and returns their paths.
C21_FinishedRunsSaveBothFiles ==
  [][ /\ pc = "final" => pc' = "save"
      /\ pc = "save" => pc' = "saved" ]_vars

\* How often a row occurs in a table.
Copies(table, r) == Cardinality({ k \in 1..Len(table) : table[k] = r })

\* C22: fuzzy_match_invalid_personas splits the skipped table in two: no row
\* is lost or doubled; a corrected row carries a member of VALID_PERSONAS and
\* no Skip Reason, and comes from a row whose Skip Reason starts with
\* "Invalid persona:"; every other row is returned as it was among the still
\* skipped rows.
C22_FuzzyMatchPartitions ==
  pc = "fuzzy_done" =>
    /\ Len(corrected_df) + Len(still_skipped_df) = Len(skipped_df)
    /\ \A id \in 1..MaxSkipped :
         Occurrences(corrected_df, id) + Occurrences(still_skipped_df, id)
           = Occurrences(skipped_df, id)
    /\ \A k \in 1..Len(corrected_df) :
         /\ corrected_df[k].persona \in VALID_PERSONAS
         /\ corrected_df[k].reason = None
         /\ \E h \in 1..Len(skipped_df) :
              /\ skipped_df[h].id = corrected_df[k].id
              /\ StartsWith(PyStr(skipped_df[h].reason), InvalidPersonaColon)
    /\ \A k \in 1..Len(still_skipped_df) :
         Copies(still_skipped_df, still_skipped_df[k]) <= Copies(skipped_df, still_skipped_df[k])
    /\ \A h \in 1..Len(skipped_df) :
         ~StartsWith(PyStr(skipped_df[h].reason), InvalidPersonaColon)
           => Copies(still_skipped_df, skipped_df[h]) = Copies(skipped_df, skipped_df[h])

\* C22, witness: of two skipped rows, the near miss was corrected and the
\* row without a reply stayed skipped.
C22_OneCorrectedOneKept ==
  /\ pc = "fuzzy_done"
  /\ Len(corrected_df) = 1
  /\ corrected_df[1].persona \in VALID_PERSONAS
  /\ Len(still_skipped_df) = 1
  /\ still_skipped_df[1].reason = BatchErrorColon \o <<" ">> \o NoLLMResponse

\* The step that ends a pass (lines 201-219).
PassEndStep == pc = "dispatch" /\ i >= Len(df_pass) /\ pc' = "pass_head"

\* C23: remaining_ids changes in no step of a pass's dispatch loop, a failed
\* chunk only adds its ids to failed_ids; the step that ends the pass sets it
\* to (remaining_ids - ok_ids) | failed_ids.
C23_RemainingChangesOnlyAtPassEnd ==
  [][ /\ ~PassEndStep => remaining_ids' = remaining_ids
      /\ (pc = "call" /\ pc' = "dispatch" /\ raised' # raised)
           => (failed_ids' = failed_ids \cup ChunkIds /\ remaining_ids' = remaining_ids)
      /\ PassEndStep
           => remaining_ids' = (remaining_ids \ OkIds(all_results)) \cup failed_ids ]_vars

\* C23, witness: of three rows, the first pass classified two and took them
\* out of remaining_ids; the chunk of the second pass failed, and its row is
\* still in remaining_ids when the pass has ended.
C23_PassEndedWithFailedAndClassified ==
  /\ pc = "pass_head"
  /\ p = 3
  /\ Len(df) = 3
  /\ failed_ids = {3}
  /\ remaining_ids = {3}
  /\ OkIds(all_results) = {1, 2}

\* No persona was parsed for the row: no extracted row names it with a
\* non-empty Persona.
NoPersonaParsed(id) ==
  ~\E h \in 1..Len(rows) : ProspectIdOf(rows[h].id) = id /\ rows[h].persona # <<>>

\* C24: when batch_enricher.main has split the rows, every input row for
\* which no persona was parsed is in the skipped table with the reason
\* "Batch error: " followed by the id's entry in the errors map, or by
\* "No LLM response" when the id has no entry.
C24_UnparsedRowsCarryBatchError ==
  pc \in {"batch_save", "done"} =>
    \A k \in 1..Len(df) :
      NoPersonaParsed(df[k]) =>
        \E h \in 1..Len(skipped_df) :
          /\ skipped_df[h].id = df[k]
          /\ skipped_df[h].reason =
               BatchErrorColon \o <<" ">>
                 \o DictGet(errors_map, IntToStr(df[k]), NoLLMResponse)

\* The step that starts a pass (lines 150-160).
PassStartStep == pc = "pass_head" /\ pc' = "dispatch"

\* C25: the rows of a pass are rows that were not in ok_ids when the pass
\* before ended, or whose chunk failed in it; a row taken out of
\* remaining_ids never comes back, every chunk is made of remaining rows, and
\* ok_ids, computed from the cumulative replies, never loses a member.
C25_ClassifiedRowsStayOut ==
  /\ [][ PassStartStep =>
           \A k \in 1..Len(df_pass') :
             df_pass'[k] \notin OkIds(all_results) \/ df_pass'[k] \in failed_ids ]_vars
  /\ [][ PassEndStep =>
           \A id \in OkIds(all_results) \ failed_ids : id \notin remaining_ids' ]_vars
  /\ [][ remaining_ids' \subseteq remaining_ids ]_vars
  /\ [](pc = "call" => ChunkIds \subseteq remaining_ids)
  /\ [][ OkIds(all_results) \subseteq OkIds(all_results') ]_vars

\* C25, witness: the reply of the first pass classified the first of three
\* rows, in a row ahead of its answers; the second pass is sending the two
\* other rows.
C25_SecondPassWithoutClassifiedRow ==
  /\ pc = "call"
  /\ p = 2
  /\ Len(df) = 3
  /\ Len(all_results) = 1
  /\ OkIds(all_results) = {1}
  /\ ChunkIds = {2, 3}

\* The error is a rate-limit signal: ask_chat_session raised it for an HTTP
\* 429, or its text carries the marker "rate limit".
RateLimitSignal(err) ==
  \/ /\ err.exc = "HTTPError"
     /\ StartsWith(err.msg, <<"4","2","9"," ","r","a","t","e","_","l","i","m","i","t","_",
                              "e","x","c","e","e","d","e","d",":">>)
  \/ Contains(Lower(err.msg), <<"r","a","t","e"," ","l","i","m","i","t">>)

\* C26: a failed attempt of call_with_retries changes the chunk size only
\* when its error is a rate-limit signal; after a request timeout, an HTTP
\* error other than 429 or another transport error the size is what it was.
C26_OnlyRateLimitsShrink ==
  [][ (pc = "call" /\ pc' = "call" /\ attempt' = attempt + 1 /\ ~RateLimitSignal(last_err'))
        => local_chunk' = local_chunk ]_vars

\* The Prospect Ids of the input table.
InputIds == { df[k] : k \in 1..Len(df) }

\* C27: in a streaming run remaining_ids holds input Prospect Ids only, and
\* no step adds a member to it, whatever ids the replies name and whichever
\* chunks fail.
C27_RemainingOnlyShrinks ==
  /\ [](remaining_ids \subseteq InputIds)
  /\ [][ remaining_ids' \subseteq remaining_ids /\ InputIds' = InputIds ]_vars

\* C27, witness: a reply named an id that no input row has, a later chunk
\* failed, and the pass has ended with rows remaining.
C27_PassEndedAfterUnknownIdAndFailure ==
  /\ pc = "pass_head"
  /\ p = 3
  /\ 0 \in AnsweredIds
  /\ failed_ids # {}
  /\ remaining_ids = failed_ids

\* C28: the counts that import_classified_contacts returns account for
\* every contact once: success + failed + not_found is the number of rows
\* with both Email and Persona, success + failed is the number of contacts
\* sent in update batches, and not_found is not negative.
C28_CountsAccountForEveryContact ==
  pc = "import_returned" =>
    /\ success_count + failed_count + not_found_count = Len(df_clean)
    /\ success_count + failed_count = Len(update_inputs)
    /\ not_found_count >= 0

\* C29: when the polling of the batch pipeline returns a status other than
\* "completed", main saves the metadata as a checkpoint and raises
\* RuntimeError; no output file is downloaded and no table is computed or
\* written, and nothing follows the exception.
C29_UncompletedBatchStops ==
  /\ [][ (pc = "batch_polled" /\ meta.status # "completed")
           => /\ pc' = "RuntimeError"
              /\ checkpoints' = Append(checkpoints, "meta")
              /\ downloads' = downloads ]_vars
  /\ []((pc \notin {"batch_poll", "batch_polled"} /\ meta.status # "completed")
          => /\ pc = "RuntimeError"
             /\ downloads = <<>>
             /\ jsonl_output = <<>>
             /\ final_df = <<>> /\ skipped_df = <<>>)
  /\ [][ pc # "RuntimeError" ]_vars

\* C29, witness: the batch was cancelled, although it has an output file;
\* main saved the metadata and raised RuntimeError.
C29_CancelledBatchRaised ==
  /\ pc = "RuntimeError"
  /\ meta.status = "cancelled"
  /\ meta.output_file_id = OutputFileId
  /\ checkpoints = <<"meta">>
  /\ downloads = <<>>

\* A row of the skipped CSV that lacks a Persona: the value is missing (an
\* empty cell, or no Persona column) or blank.
LacksPersona(r) == r.persona \in {NaN, Unset} \/ Strip(r.persona) = <<>>

\* C30: batch_rerun_skipped.main sends again exactly the rows of the skipped
\* CSV that lack a Persona, missing or blank, and no row that has one; when
\* every row has a Persona it creates no batch; and in the merged table a
\* row's new non-empty Persona replaces the old one, while a row with no new
\* Persona keeps its old value.
C30_RerunSendsRowsWithoutPersona ==
  /\ [][ pc = "rerun_select"
           => /\ df_todo' = SelectSeq(df_skip, LacksPersona)
              /\ pc' = IF df_todo' = <<>> THEN "return" ELSE "rerun_create" ]_vars
  /\ [][ pc = "rerun_create"
           => requests' = << [k \in 1..Len(df_todo) |-> df_todo[k].id] >> ]_vars
  /\ [](pc = "return" => requests = <<>>)
  /\ [][ pc = "rerun_merge"
           => /\ Len(merged') = Len(df_skip)
              /\ \A k \in 1..Len(df_skip) :
                   LET new == SelectSeq(rows, LAMBDA r : r.id = df_skip[k].id /\ r.persona # <<>>)
                   IN merged'[k].persona =
                        IF new # <<>> THEN new[1].persona ELSE df_skip[k].persona ]_vars

====
